---- MODULE Spec2Model ----
(***************************************************************************)
(* prec_ctrl::FixedPoint<WIDTH, PLACE>: a signed significand with a        *)
(* compile-time bit width and LSB place.  A value is modelled as a record  *)
(* [width, place, significand]; the template parameters travel with the    *)
(* value, and a static_assert of the source is a guard of the action.      *)
(*                                                                         *)
(* Storage.  significand_t<WIDTH> is int_fast32_t for WIDTH <= 32 and      *)
(* int_fast64_t above; both have at least 32 bits.  TLC's integers are     *)
(* 32-bit and TLC stops with an error on overflow, so every arithmetic     *)
(* step that TLC evaluates is exact in the storage type as well.  The      *)
(* model is the build whose int_fast32_t is the 32-bit int; the            *)
(* intermediates of the rounding functions, which are 64 bits wide from    *)
(* LSB_PLACE - PLACE = 31 on, are held in two limbs.                       *)
(*                                                                         *)
(* Spec calls the member functions of FixedPoint one at a time, SpecAdder  *)
(* the adders of fixed_numeric.h, SpecMultiAndSum runs the accumulation    *)
(* of the equivalence test, and SpecComplex calls the members of Complex.  *)
(***************************************************************************)
EXTENDS Integers, Sequences, FiniteSets, TLC

\* ---------------------------------------------------------------- bounds
\* widest operand type the model enumerates
MaxWidth == 4
\* the LSB place of an operand type lies in -MaxPlace..MaxPlace
MaxPlace == 1
MinPlace == -MaxPlace
\* exp2<EXP>() is instantiated for EXP in -MaxExp..MaxExp
MaxExp == 1
\* the widest n_i and the widest a_i of an accumulation of n_i * a_i
MaxCountWidth == 3
MaxTermWidth == 3
\* the widest parts of the operands of Complex
MaxComplexWidth == 3
\* a double input carries DblFrac bits below the place of the type it is
\* converted to
DblFrac == 2
\* FixedPoint<WIDTH, PLACE> is instantiated with WIDTH and PLACE up to
\* TypeMargin beyond each limit of the static_asserts
TypeMargin == 2
\* operator double() is called on the types of the BigMargin widest widths
BigMargin == 2
\* std::accumulate folds increments of FixedPoint<MaxFoldWidth, 0>, at most
\* MaxFoldLen of them
MaxFoldWidth == 3
MaxFoldLen == 3

\* ------------------------------------------------- FixedPoint/significand.h
MIN_BIT_WIDTH == 2
\* MAX_BIT_WIDTH under NO_NEED_TO_CONVERT_TO_DOUBLE_EXACTLY
MAX_BIT_WIDTH_no_need_to_convert == 2^6
\* std::numeric_limits<double>::digits + 1
MAX_BIT_WIDTH == 54
\* extremes of the 32-bit significand storage (u_significand_t<W> arithmetic
\* is never needed above these in the model)
INT_FAST32_MAX == 2147483647
INT_FAST32_MIN == -INT_FAST32_MAX - 1

\* (1 << (WIDTH - 1)) - 1, the shift made on u_significand_t<WIDTH>: the
\* two halves of 2^(WIDTH-1) are added around the - 1, so that WIDTH = 32
\* is evaluated within 32 bits
MAX_SIGNIFICAND_VALUE(WIDTH) == (2^(WIDTH - 2) - 1) + 2^(WIDTH - 2)

MIN_SIGNIFICAND_VALUE_twos_complement(WIDTH) == -MAX_SIGNIFICAND_VALUE(WIDTH) - 1
MIN_SIGNIFICAND_VALUE(WIDTH) == -MAX_SIGNIFICAND_VALUE(WIDTH)

\* ------------------------------------------------------ FixedPoint/limit.h
\* std::numeric_limits<double>::min_exponent - 1
MIN_LSB_PLACE == -1022
\* std::numeric_limits<double>::max_exponent
MAX_MSB_PLACE == 1024

\* clamp with the lower bound of two's complement
clamp_twos_complement(WIDTH, i) ==
    IF i > MAX_SIGNIFICAND_VALUE(WIDTH) THEN MAX_SIGNIFICAND_VALUE(WIDTH)
    ELSE IF i < MIN_SIGNIFICAND_VALUE_twos_complement(WIDTH)
         THEN MIN_SIGNIFICAND_VALUE_twos_complement(WIDTH)
    ELSE i

clamp(WIDTH, i) ==
    IF i > MAX_SIGNIFICAND_VALUE(WIDTH) THEN MAX_SIGNIFICAND_VALUE(WIDTH)
    ELSE IF i < MIN_SIGNIFICAND_VALUE(WIDTH) THEN MIN_SIGNIFICAND_VALUE(WIDTH)
    ELSE i

\* clamp_significand<WIDTH>(T v): the clamp that compares v in its own type T
clamp_significand(WIDTH, v) ==
    IF v > MAX_SIGNIFICAND_VALUE(WIDTH) THEN MAX_SIGNIFICAND_VALUE(WIDTH)
    ELSE IF v < MIN_SIGNIFICAND_VALUE(WIDTH) THEN MIN_SIGNIFICAND_VALUE(WIDTH)
    ELSE v

\* ------------------------------------------------------------------ double
\* A double is [cls, m, e].  cls = "fin": the value m * 2^e, exactly (the
\* model's magnitudes are far below 2^53, so no double operation here
\* rounds).  cls = "big": a finite double of sign m (+1/-1) whose magnitude
\* is beyond every integer type, such as 1e300; it stays so when scaled by
\* a power of two of the model's places.
Fin(m, e) == [cls |-> "fin", m |-> m, e |-> e]
Big(sgn) == [cls |-> "big", m |-> sgn, e |-> 0]

RoundingModes == {"FE_TONEAREST", "FE_UPWARD", "FE_DOWNWARD", "FE_TOWARDZERO"}

\* a * std::exp2(k)
mul_exp2(a, k) == IF a.cls = "big" THEN a ELSE Fin(a.m, a.e + k)

\* std::nearbyint(a) under the rounding mode rnd
nearbyint(a, rnd) ==
    IF a.cls = "big" THEN a
    ELSE IF a.e >= 0 THEN Fin(a.m * 2^a.e, 0)
    ELSE LET q == 2^(-a.e)
             lo == a.m \div q
             rem == a.m % q
         IN  IF rem = 0 THEN Fin(lo, 0)
             ELSE CASE rnd = "FE_DOWNWARD" -> Fin(lo, 0)
                    [] rnd = "FE_UPWARD" -> Fin(lo + 1, 0)
                    [] rnd = "FE_TOWARDZERO" -> Fin(IF a.m < 0 THEN lo + 1 ELSE lo, 0)
                    [] OTHER -> IF 2 * rem < q THEN Fin(lo, 0)
                                ELSE IF 2 * rem > q THEN Fin(lo + 1, 0)
                                ELSE Fin(IF lo % 2 = 0 THEN lo ELSE lo + 1, 0)

\* a > i and a < i for an integer-valued double a and an integer i
dbl_gt(a, i) == IF a.cls = "big" THEN a.m > 0 ELSE a.m > i
dbl_lt(a, i) == IF a.cls = "big" THEN a.m < 0 ELSE a.m < i

\* a == b on doubles
dbl_eq(a, b) ==
    IF a.cls = "big" \/ b.cls = "big" THEN a = b
    ELSE LET l == IF a.e < b.e THEN a.e ELSE b.e
         IN  a.m * 2^(a.e - l) = b.m * 2^(b.e - l)

\* The implicit conversion of an integer-valued double to significand_t at
\* the call clamp<WIDTH>(double).  In range it yields the integer; out of
\* range the behaviour is undefined.  The builds produce the most negative
\* value whatever the sign (x86 cvttsd2si) or the value saturated towards
\* the sign (AArch64 fcvtzs); after clamp<WIDTH> the 32-bit and the 64-bit
\* extremes act alike.
double_to_significand_t(a) ==
    IF a.cls = "fin" THEN {a.m}
    ELSE IF a.m > 0 THEN {INT_FAST32_MIN, INT_FAST32_MAX}
    ELSE {INT_FAST32_MIN}

\* to_significand<WIDTH, PLACE>(a): the set of results of
\* clamp<WIDTH>(std::nearbyint(a * std::exp2(-PLACE)))
to_significand(WIDTH, PLACE, a, rnd) ==
    { clamp(WIDTH, i) :
        i \in double_to_significand_t(nearbyint(mul_exp2(a, -PLACE), rnd)) }

\* ---------------------------------------------------------- double_limit.h
limit_precision(a, width, place, rnd) ==
    LET r == nearbyint(mul_exp2(a, -place), rnd)
        MAX_VALUE == 2^(width - 1) - 1
        c == IF dbl_gt(r, MAX_VALUE) THEN Fin(MAX_VALUE, 0)
             ELSE IF dbl_lt(r, -MAX_VALUE) THEN Fin(-MAX_VALUE, 0)
             ELSE r
    IN  mul_exp2(c, place)

\* ------------------------------------------------------------ FixedPoint.h
FP(w, p, s) == [width |-> w, place |-> p, significand |-> s]

Max(a, b) == IF a > b THEN a ELSE b
Min(a, b) == IF a < b THEN a ELSE b

\* the static_asserts without the upper limit of WIDTH
ValidType_no_max_width(WIDTH, PLACE) ==
    /\ MIN_BIT_WIDTH <= WIDTH
    /\ MIN_LSB_PLACE <= PLACE
    /\ WIDTH + PLACE <= MAX_MSB_PLACE

\* the four static_asserts of the class template
ValidType(WIDTH, PLACE) ==
    /\ MIN_BIT_WIDTH <= WIDTH
    /\ WIDTH <= MAX_BIT_WIDTH
    /\ MIN_LSB_PLACE <= PLACE
    /\ WIDTH + PLACE <= MAX_MSB_PLACE

superset_width_max_place(WIDTH, PLACE, width2, place2, extra_width) ==
    Max(WIDTH + PLACE, width2 + place2) - Max(PLACE, place2) + extra_width
superset_width(WIDTH, PLACE, width2, place2, extra_width) ==
    Max(WIDTH + PLACE, width2 + place2) - Min(PLACE, place2) + extra_width

\* superset_t<WIDTH2, PLACE2> as a [width, place] pair
superset_t(WIDTH, PLACE, WIDTH2, PLACE2) ==
    [width |-> superset_width(WIDTH, PLACE, WIDTH2, PLACE2, 0),
     place |-> Min(PLACE, PLACE2)]

addition_result_t_no_extra(WIDTH, PLACE, WIDTH2, PLACE2) ==
    [width |-> superset_width(WIDTH, PLACE, WIDTH2, PLACE2, 0),
     place |-> Min(PLACE, PLACE2)]
addition_result_t(WIDTH, PLACE, WIDTH2, PLACE2) ==
    [width |-> superset_width(WIDTH, PLACE, WIDTH2, PLACE2,
                   IF PLACE >= WIDTH2 + PLACE2 - 1 \/ PLACE2 >= WIDTH + PLACE - 1
                   THEN 0 ELSE 1),
     place |-> Min(PLACE, PLACE2)]

\* static_assert of the narrowing constructor
IsNarrower(WIDTH_SRC, PLACE_SRC, WIDTH, PLACE) ==
    PLACE <= PLACE_SRC /\ WIDTH + PLACE >= WIDTH_SRC + PLACE_SRC

\* FixedPoint<WIDTH, PLACE>(const FixedPoint<WIDTH_SRC, PLACE_SRC> &src)
narrowing_ctor_no_shift(WIDTH, PLACE, src) ==
    FP(WIDTH, PLACE, src.significand)
narrowing_ctor(WIDTH, PLACE, src) ==
    FP(WIDTH, PLACE, src.significand * (1 * 2^(src.place - PLACE)))

\* operator=(const FixedPoint<WIDTH_SRC, PLACE_SRC> &src)
assign_narrower(this, src) ==
    LET src_ext == narrowing_ctor(this.width, this.place, src)
    IN  [this EXCEPT !.significand = src_ext.significand]

\* reduce_dynamic_range that keeps one bit more than DEST_WIDTH
reduce_dynamic_range_wide(this, DEST_WIDTH) ==
    FP(DEST_WIDTH, this.place,
       clamp_significand(DEST_WIDTH + 1, this.significand))

reduce_dynamic_range(this, DEST_WIDTH) ==
    FP(DEST_WIDTH, this.place, clamp_significand(DEST_WIDTH, this.significand))

\* operator double(): std::ldexp(significand, PLACE)
to_double(this) == Fin(this.significand, this.place)

operator_neg_complement(this) ==
    FP(this.width, this.place, -this.significand - 1)
operator_neg(this) ==
    FP(this.width, this.place, -this.significand)

operator_plus(this, op2) ==
    LET t == addition_result_t(this.width, this.place, op2.width, op2.place)
        result == narrowing_ctor(t.width, t.place, this)
        op2_ext == narrowing_ctor(t.width, t.place, op2)
    IN  [result EXCEPT !.significand = result.significand + op2_ext.significand]

operator_minus(this, op2) ==
    LET t == addition_result_t(this.width, this.place, op2.width, op2.place)
        result == narrowing_ctor(t.width, t.place, this)
        op2_ext == narrowing_ctor(t.width, t.place, op2)
    IN  [result EXCEPT !.significand = result.significand - op2_ext.significand]

operator_mul_narrow(this, op2) ==
    FP(this.width + op2.width - 2, this.place + op2.place,
       this.significand * op2.significand)
operator_mul(this, op2) ==
    LET significand1 == this.significand
        significand2 == op2.significand
    IN  FP(this.width + op2.width - 1, this.place + op2.place,
           significand1 * significand2)

\* the two operands of a relational operator, widened to superset_t
widen_pair(this, op2) ==
    LET t == superset_t(this.width, this.place, op2.width, op2.place)
    IN  [op1 |-> narrowing_ctor(t.width, t.place, this),
         op2_ext |-> narrowing_ctor(t.width, t.place, op2)]

operator_eq(this, op2) ==
    LET w == widen_pair(this, op2) IN w.op1.significand = w.op2_ext.significand
operator_ne(this, op2) ==
    LET w == widen_pair(this, op2) IN w.op1.significand /= w.op2_ext.significand
operator_lt_unwidened(this, op2) == this.significand < op2.significand
operator_lt(this, op2) ==
    LET w == widen_pair(this, op2) IN w.op1.significand < w.op2_ext.significand
operator_le(this, op2) ==
    LET w == widen_pair(this, op2) IN w.op1.significand <= w.op2_ext.significand
operator_gt(this, op2) ==
    LET w == widen_pair(this, op2) IN w.op1.significand > w.op2_ext.significand
operator_ge(this, op2) ==
    LET w == widen_pair(this, op2) IN w.op1.significand >= w.op2_ext.significand

exp2(this, EXP) == FP(this.width, this.place + EXP, this.significand)

set_significand(this, v) ==
    [this EXCEPT !.significand = clamp_significand(this.width, v)]

\* ---------------------------------------------------- rounding functions
\* round_result_t<EXTRA_WIDTH, LSB_PLACE> as a [width, place] pair
round_result_t(WIDTH, PLACE, EXTRA_WIDTH, LSB_PLACE) ==
    [width |-> IF PLACE >= LSB_PLACE THEN WIDTH
               ELSE IF WIDTH + PLACE <= 1 + LSB_PLACE THEN Max(2, 1 + EXTRA_WIDTH)
               ELSE WIDTH + PLACE + EXTRA_WIDTH - LSB_PLACE,
     place |-> Max(PLACE, LSB_PLACE)]

\* width of the 64-bit significand storage; round_sig_t has it whenever the
\* result width plus LSB_PLACE - PLACE exceeds 32, however far beyond 64
INT_FAST64_DIGITS == 64
\* width of std::int_fast32_t, the storage of significand_t<WIDTH> up to
\* WIDTH = 32, where it is the 32-bit int (musl, macOS, 32-bit targets)
INT_FAST32_DIGITS == 32

\* An intermediate of round_sig_t can exceed 2^31: it is held in two limbs,
\* the value being hi * Limb + lo with lo in 0 .. Limb - 1.
Limb == 2^16
wide(v) == [hi |-> v \div Limb, lo |-> v % Limb]
\* a + b
wide_add(a, b) ==
    LET lo == a.lo + b.lo
    IN  [hi |-> a.hi + b.hi + lo \div Limb, lo |-> lo % Limb]
\* -a
wide_neg(a) ==
    IF a.lo = 0 THEN [hi |-> -a.hi, lo |-> 0]
    ELSE [hi |-> -a.hi - 1, lo |-> Limb - a.lo]
\* 1 << n on 64 bits, n < 47
wide_shl1(n) ==
    IF n < 16 THEN [hi |-> 0, lo |-> 2^n] ELSE [hi |-> 2^(n - 16), lo |-> 0]
\* a < 0
wide_negative(a) == a.hi < 0
\* bit n of the two's complement representation of a, as 0 or 1
wide_bit(a, n) ==
    IF n < 16 THEN (a.lo \div 2^n) % 2 ELSE (a.hi \div 2^(n - 16)) % 2
\* a >> n, arithmetic, n below the width of the storage type; the result is
\* an integer again
wide_sar(a, n) ==
    IF n < 16 THEN (a.hi * Limb + a.lo) \div 2^n
    ELSE IF n - 16 > 30 THEN (IF a.hi < 0 THEN -1 ELSE 0)
    ELSE a.hi \div 2^(n - 16)

\* s >> shift on a non-negative s held in round_sig_t.  Below the width of
\* the storage type it is the quotient.  A shift count that reaches the
\* width is undefined: the builds shift by the count modulo the width
\* (x86-64 sar, AArch64 asr) or shift every bit out (a sign-filling
\* shifter).
shr(s, shift) ==
    IF shift < INT_FAST64_DIGITS
    THEN {wide_sar(s, shift)}
    ELSE {wide_sar(s, shift % INT_FAST64_DIGITS), 0}

\* bit n of the two's complement representation of s, as 0 or 1
bit_of(s, n) == (s \div 2^n) % 2

\* round_common<EXTRA_WIDTH, LSB_PLACE>(func), as the set of results the
\* builds produce; s is func(significand), which the source evaluates only
\* on the rounding branch
round_common_trunc(this, EXTRA_WIDTH, LSB_PLACE, s) ==
    LET t == round_result_t(this.width, this.place, EXTRA_WIDTH, LSB_PLACE)
    IN  IF this.place = t.place
        THEN {FP(t.width, t.place, this.significand)}
        ELSE LET shift == t.place - this.place
             IN  IF ~wide_negative(s)
                 THEN {FP(t.width, t.place, r) : r \in shr(s, shift)}
                 ELSE {FP(t.width, t.place, -r) : r \in shr(wide_neg(s), shift)}
round_common(this, EXTRA_WIDTH, LSB_PLACE, s) ==
    LET t == round_result_t(this.width, this.place, EXTRA_WIDTH, LSB_PLACE)
    IN  IF this.place = t.place
        THEN {FP(t.width, t.place, this.significand)}
        ELSE LET shift == t.place - this.place
             IN  IF ~wide_negative(s)
                 THEN {FP(t.width, t.place, r) : r \in shr(s, shift)}
                 ELSE {FP(t.width, t.place, -r - 1) :
                          r \in shr(wide_neg(wide_add(s, wide(1))), shift)}

\* MAX_SIGNIFICAND_VALUE<N> is 1 << (N - 1) on u_significand_t<N>, at most 64
\* bits wide: beyond that it is no constant expression and the function
\* that names it does not compile
mask_is_constant(N) == N - 1 < INT_FAST64_DIGITS

\* MAX_SIGNIFICAND_VALUE<N> as an intermediate: (1 << (N - 1)) - 1
wide_max_significand_value(N) == wide_add(wide_shl1(N - 1), wide(-1))

\* HALF is significand_t<WIDTH>(1) << (LSB_PLACE - PLACE - 1), a constant
\* expression only for a shift count below the width of significand_t<WIDTH>
half_is_constant(WIDTH, PLACE, LSB_PLACE) ==
    LSB_PLACE - PLACE - 1 <
        (IF WIDTH > 32 THEN INT_FAST64_DIGITS ELSE INT_FAST32_DIGITS)

\* static_cast<significand_t<WIDTH>>(1) << n: the shift is made in the
\* storage of significand_t<WIDTH>, whose sign bit a count of its width
\* less one sets, and the result is converted to round_sig_t afterwards
half(WIDTH, n) ==
    IF WIDTH <= 32 /\ n = INT_FAST32_DIGITS - 1
    THEN wide(INT_FAST32_MIN)
    ELSE wide_shl1(n)

\* the lambdas handed to round_common, applied to s
ceil_func(PLACE, LSB_PLACE, s) ==
    IF PLACE >= LSB_PLACE THEN wide(0)
    ELSE LET FRAC_MASK == wide_max_significand_value(1 + LSB_PLACE - PLACE)
         IN  wide_add(wide(s), FRAC_MASK)

floor_func(PLACE, LSB_PLACE, s) == wide(s)

trunc_func_no_mask(PLACE, LSB_PLACE, s) ==
    IF PLACE >= LSB_PLACE THEN wide(0) ELSE wide(s)
trunc_func(PLACE, LSB_PLACE, s) ==
    IF PLACE >= LSB_PLACE THEN wide(0)
    ELSE IF s >= 0 THEN wide(s)
    ELSE LET FRAC_MASK == wide_max_significand_value(1 + LSB_PLACE - PLACE)
         IN  wide_add(wide(s), FRAC_MASK)

round_half_to_even_func_no_lsb(PLACE, LSB_PLACE, s) ==
    IF PLACE >= LSB_PLACE THEN wide(0)
    ELSE LET HALF_MINUS_1 == wide_max_significand_value(LSB_PLACE - PLACE)
         IN  wide_add(wide(s), HALF_MINUS_1)
round_half_to_even_func(PLACE, LSB_PLACE, s) ==
    IF PLACE >= LSB_PLACE THEN wide(0)
    ELSE LET HALF_MINUS_1 == wide_max_significand_value(LSB_PLACE - PLACE)
             result_lsb ==
                 IF wide_bit(wide(s), LSB_PLACE - PLACE) /= 0 THEN 1 ELSE 0
         IN  wide_add(wide_add(wide(s), HALF_MINUS_1), wide(result_lsb))

round_half_away_from_zero_func(WIDTH, PLACE, LSB_PLACE, s) ==
    IF PLACE >= LSB_PLACE THEN wide(0)
    ELSE LET HALF == half(WIDTH, LSB_PLACE - PLACE - 1)
             sign_bit == IF s < 0 THEN 1 ELSE 0
         IN  wide_add(wide_add(wide(s), HALF), wide(-sign_bit))

round_half_toward_zero_func(WIDTH, PLACE, LSB_PLACE, s) ==
    IF PLACE >= LSB_PLACE THEN wide(0)
    ELSE LET HALF == half(WIDTH, LSB_PLACE - PLACE - 1)
             sign_bit == IF s < 0 THEN 1 ELSE 0
         IN  wide_add(wide_add(wide(s), HALF), wide(-(1 - sign_bit)))

round_half_up_func(WIDTH, PLACE, LSB_PLACE, s) ==
    IF PLACE >= LSB_PLACE THEN wide(0)
    ELSE LET HALF == half(WIDTH, LSB_PLACE - PLACE - 1)
         IN  wide_add(wide(s), HALF)

round_half_down_func(PLACE, LSB_PLACE, s) ==
    IF PLACE >= LSB_PLACE THEN wide(0)
    ELSE LET HALF_MINUS_1 == wide_max_significand_value(LSB_PLACE - PLACE)
         IN  wide_add(wide(s), HALF_MINUS_1)

ceil(this, LSB_PLACE) ==
    round_common(this, 1, LSB_PLACE,
                 ceil_func(this.place, LSB_PLACE, this.significand))
floor(this, LSB_PLACE) ==
    round_common(this, 1, LSB_PLACE,
                 floor_func(this.place, LSB_PLACE, this.significand))
trunc(this, LSB_PLACE) ==
    round_common(this, 0, LSB_PLACE,
                 trunc_func(this.place, LSB_PLACE, this.significand))
round_half_to_even(this, LSB_PLACE) ==
    round_common(this, 1, LSB_PLACE,
                 round_half_to_even_func(this.place, LSB_PLACE, this.significand))
round_half_away_from_zero(this, LSB_PLACE) ==
    round_common(this, 1, LSB_PLACE,
                 round_half_away_from_zero_func(this.width, this.place,
                     LSB_PLACE, this.significand))
round_half_toward_zero(this, LSB_PLACE) ==
    round_common(this, 1, LSB_PLACE,
                 round_half_toward_zero_func(this.width, this.place,
                     LSB_PLACE, this.significand))
round_half_up(this, LSB_PLACE) ==
    round_common(this, 1, LSB_PLACE,
                 round_half_up_func(this.width, this.place,
                     LSB_PLACE, this.significand))
round_half_down(this, LSB_PLACE) ==
    round_common(this, 1, LSB_PLACE,
                 round_half_down_func(this.place, LSB_PLACE, this.significand))

\* ---------------------------------------------------------- fixed_numeric.h
\* The accumulator type T of an adder: significand_t<WIDTH1>, or a native
\* integer type such as std::int16_t.
SignificandT(WIDTH1) == [name |-> "significand_t", width |-> WIDTH1]
Int16T == [name |-> "int16_t", width |-> 16]

\* the conversion of an integer v to T at a return.  significand_t has 32
\* bits at least and holds every integer of the model; std::int16_t keeps the
\* low 16 bits (the conversion every two's complement build makes).
convert_to(T, v) ==
    IF T.name = "int16_t" THEN ((v + 32768) % 65536) - 32768 ELSE v

\* a + b leaves std::int_fast32_t
add_int_fast32_overflows(a, b) ==
    \/ b > 0 /\ a > INT_FAST32_MAX - b
    \/ b < 0 /\ a < INT_FAST32_MIN - b

\* accumulator + increment.get_significand().  An accumulator of
\* significand_t<WIDTH1>, WIDTH1 <= 32, or of std::int16_t, and an increment
\* of significand_t<WIDTH2>, WIDTH2 <= WIDTH1, are added as std::int_fast32_t.
\* A sum beyond that type is undefined; the builds (g++ 12, -O0 and -O2)
\* keep its low 32 bits.
add_int_fast32(a, b) ==
    IF ~add_int_fast32_overflows(a, b) THEN a + b
    ELSE IF b > 0
    THEN (a + INT_FAST32_MIN) + (b + INT_FAST32_MIN)
    ELSE (a - INT_FAST32_MIN) + (b - INT_FAST32_MIN)

significand_adder_saturating(T, accumulator, increment) ==
    LET r == add_int_fast32(accumulator, increment.significand)
    IN  IF T.name = "int16_t" THEN Max(-32768, Min(32767, r)) ELSE r
significand_adder(T, accumulator, increment) ==
    convert_to(T, add_int_fast32(accumulator, increment.significand))

\* v >> n for n >= 1, in two steps so that n = 31 stays within 32 bits
sar(v, n) == (v \div 2^(n - 1)) \div 2

int_adder_no_extend(WIDTH1, accumulator, increment) ==
    LET result == add_int_fast32(accumulator, increment.significand)
        q == sar(result, WIDTH1 - 1)
    IN  (result - q * 2^(WIDTH1 - 2)) - q * 2^(WIDTH1 - 2)
int_adder(WIDTH1, accumulator, increment) ==
    LET result == add_int_fast32(accumulator, increment.significand)
        \* the bits of result from WIDTH1 - 1 up
        q == sar(result, WIDTH1 - 1)
        \* the low WIDTH1 - 1 bits, result & UMASK
        low == (result - q * 2^(WIDTH1 - 2)) - q * 2^(WIDTH1 - 2)
    IN  IF q % 2 = 0
        THEN low
        ELSE (low - 2^(WIDTH1 - 2)) - 2^(WIDTH1 - 2)

\* const significand_t<WIDTH1 + 1> result
\*     = accumulator + increment.get_significand();
\* as the set of the values the builds give result, each in two limbs.  The
\* sum is formed as std::int_fast32_t before it is stored: where it leaves
\* that type, result holds its low 32 bits, sign-extended, or, in a build
\* that forms the sum in the type of result, every bit.
adder_result(accumulator, increment) ==
    IF add_int_fast32_overflows(accumulator, increment.significand)
    THEN {wide(add_int_fast32(accumulator, increment.significand)),
          wide_add(wide(accumulator), wide(increment.significand))}
    ELSE {wide(accumulator + increment.significand)}

\* the conversion of result to significand_t<WIDTH1>, WIDTH1 <= 32, at the
\* return and at the call of clamp: the low 32 bits
to_int_fast32(result) ==
    (((result.hi + 32768) % Limb) - 32768) * Limb + result.lo

\* exact_adder returns a value or throws std::range_error
Returns(result, v) == [thrown |-> FALSE, value |-> v, result |-> result]
Throws(result) == [thrown |-> TRUE, value |-> 0, result |-> result]

exact_adder(WIDTH1, accumulator, increment) ==
    { LET \* result & SIGN_MASK: the bits of result from WIDTH1 - 1 up
          sign_bits == wide_sar(result, WIDTH1 - 1)
      IN  IF sign_bits /= 0 /\ sign_bits /= -1
          THEN Throws(result)
          ELSE Returns(result, to_int_fast32(result))
      : result \in adder_result(accumulator, increment) }

\* clamp_adder returns a value
clamp_adder(WIDTH1, accumulator, increment) ==
    { [value |-> clamp(WIDTH1, to_int_fast32(result)), result |-> result]
      : result \in adder_result(accumulator, increment) }

\* ------------------------------------------------------ FixedPointComplex.h
\* Complex<T>(re, im), both parts of type T
Complex(re, im) == [re |-> re, im |-> im]

Complex_operator_mul_plus(this, op2) ==
    Complex(operator_plus(operator_mul(this.re, op2.re),
                          operator_mul(this.im, op2.im)),
            operator_plus(operator_mul(this.re, op2.im),
                          operator_mul(this.im, op2.re)))
Complex_operator_mul(this, op2) ==
    LET re == operator_minus(operator_mul(this.re, op2.re),
                             operator_mul(this.im, op2.im))
        im == operator_plus(operator_mul(this.re, op2.im),
                            operator_mul(this.im, op2.re))
    IN  Complex(re, im)

conj(this) == Complex(this.re, operator_neg(this.im))

inphase(this, ref) ==
    operator_plus(operator_mul(this.re, ref.re), operator_mul(this.im, ref.im))

quadrature_swapped(this, ref) ==
    operator_minus(operator_mul(this.re, ref.im), operator_mul(this.im, ref.re))
quadrature(this, ref) ==
    operator_minus(operator_mul(this.im, ref.re), operator_mul(this.re, ref.im))

\* ------------------------------------------------------------ the program
\* acc: the FixedPoint object last produced; op: the operation that produced
\* it; in1, in2: its operands (*this and the argument); arg: its integer
\* template or function argument; dbl, rnd: the double argument and the
\* floating-point rounding mode in effect at a conversion from double;
\* rel: the result of a relational operator; acc_t, accumulator: the type and
\* the value of the accumulator a caller folds with an adder of
\* fixed_numeric.h (arg is then the accumulator handed to the adder and in2
\* the increment); thrown: the adder threw; terms: for each significand of
\* a term of an accumulation, how many times it is in the sum; cx, cy, cz:
\* the Complex an operation of Complex is called on, its argument and its
\* Complex result (a FixedPoint result is acc).  Operations
\* are called one
\* statement at a time: between two statements (op = "none") only the object
\* survives, the operands and arguments of the finished call are gone.
VARIABLES acc, op, in1, in2, arg, dbl, rnd, rel, acc_t, accumulator, thrown, terms,
          cx, cy, cz

vars == <<acc, op, in1, in2, arg, dbl, rnd, rel, acc_t, accumulator, thrown, terms,
          cx, cy, cz>>

\* the accumulator of the adders of fixed_numeric.h, which the member
\* functions of FixedPoint leave alone
adder_vars == <<acc_t, accumulator, thrown, terms>>

\* the operands and the result of the operations of Complex
complex_vars == <<cx, cy, cz>>

\* the types the model instantiates operands with
OperandTypes ==
    { t \in [width : MIN_BIT_WIDTH..MaxWidth, place : MinPlace..MaxPlace] :
        ValidType(t.width, t.place) }

\* arguments of set_significand: every legal significand of an operand type
\* and values beyond both ends
SigInputs == -(2^(MaxWidth - 1) + 1) .. (2^(MaxWidth - 1) + 1)

\* the objects a caller can hold: default-constructed, then set_significand
Operands ==
    { set_significand(FP(t.width, t.place, 0), v) : t \in OperandTypes, v \in SigInputs }

\* double arguments of FixedPoint<WIDTH, PLACE>(double): the multiples of
\* 2^(PLACE - DblFrac) up to past the largest value of the type, and the
\* two doubles beyond every integer type
DblMag(WIDTH) == (2^(WIDTH - 1) + 1) * 2^DblFrac
DoubleInputs(WIDTH, PLACE) ==
    { Fin(m, PLACE - DblFrac) : m \in -DblMag(WIDTH)..DblMag(WIDTH) }
        \cup {Big(1), Big(-1)}

\* LSB_PLACE arguments of the rounding functions: the places around those of
\* the operand types, the place 32 above the lowest of them and one place
\* more than 64 above every one of them
HalfLsbPlace == MinPlace + INT_FAST32_DIGITS
FarLsbPlace == MaxPlace + INT_FAST64_DIGITS + 1
LsbPlaces == (MinPlace .. (MaxPlace + 1)) \cup {HalfLsbPlace, FarLsbPlace}

InModel(v) == [width |-> v.width, place |-> v.place] \in OperandTypes

\* no call is in progress
Idle == op = "none"

NoOperand == FP(MIN_BIT_WIDTH, 0, 0)
NoDouble == Fin(0, 0)

\* record the call that produced the new acc
Call(o, a, b, n) ==
    /\ op' = o
    /\ in1' = a
    /\ in2' = b
    /\ arg' = n
    /\ dbl' = NoDouble
    /\ rnd' = "FE_TONEAREST"
    /\ rel' = FALSE
    /\ UNCHANGED <<adder_vars, complex_vars>>

NoAccumulator == SignificandT(MIN_BIT_WIDTH)
NoTerms == << >>
\* Complex(), before any operand is constructed
NoComplex == Complex(NoOperand, NoOperand)

Init ==
    /\ acc \in { FP(t.width, t.place, 0) : t \in OperandTypes }
    /\ op = "none"
    /\ in1 = NoOperand
    /\ in2 = NoOperand
    /\ arg = 0
    /\ dbl = NoDouble
    /\ rnd = "FE_TONEAREST"
    /\ rel = FALSE
    /\ acc_t = NoAccumulator
    /\ accumulator = 0
    /\ thrown = FALSE
    /\ terms = NoTerms
    /\ cx = NoComplex
    /\ cy = NoComplex
    /\ cz = NoComplex

\* the statement is over: its temporaries go, the object stays.  The model
\* follows an object on while its type is one of the operand types.
NextStatement ==
    /\ ~Idle
    /\ InModel(acc)
    /\ acc' = acc
    /\ op' = "none"
    /\ in1' = NoOperand
    /\ in2' = NoOperand
    /\ arg' = 0
    /\ dbl' = NoDouble
    /\ rnd' = "FE_TONEAREST"
    /\ rel' = FALSE
    /\ terms' = NoTerms
    /\ UNCHANGED <<acc_t, accumulator, thrown, complex_vars>>

DefaultConstruct ==
    /\ Idle
    /\ \E t \in OperandTypes :
        /\ acc' = FP(t.width, t.place, 0)
        /\ Call("default_ctor", NoOperand, NoOperand, 0)

FromDouble ==
    /\ Idle
    /\ \E t \in OperandTypes, m \in RoundingModes :
        \E d \in DoubleInputs(t.width, t.place) :
            \E s \in to_significand(t.width, t.place, d, m) :
                /\ acc' = FP(t.width, t.place, s)
                /\ op' = "from_double"
                /\ in1' = NoOperand
                /\ in2' = NoOperand
                /\ arg' = 0
                /\ dbl' = d
                /\ rnd' = m
                /\ rel' = FALSE
                /\ UNCHANGED <<adder_vars, complex_vars>>

CopyFromNarrower ==
    /\ Idle
    /\ InModel(acc)
    /\ \E t \in OperandTypes :
        /\ IsNarrower(acc.width, acc.place, t.width, t.place)
        /\ acc' = narrowing_ctor(t.width, t.place, acc)
        /\ Call("copy_narrower", acc, NoOperand, 0)

AssignFromNarrower ==
    /\ Idle
    /\ InModel(acc)
    /\ \E src \in Operands :
        /\ IsNarrower(src.width, src.place, acc.width, acc.place)
        /\ acc' = assign_narrower(acc, src)
        /\ Call("assign_narrower", acc, src, 0)

ReduceDynamicRange ==
    /\ Idle
    /\ InModel(acc)
    /\ \E dw \in MIN_BIT_WIDTH..MaxWidth :
        /\ ValidType(dw, acc.place)
        /\ acc' = reduce_dynamic_range(acc, dw)
        /\ Call("reduce_dynamic_range", acc, NoOperand, dw)

SetSignificand ==
    /\ Idle
    /\ InModel(acc)
    /\ \E v \in SigInputs :
        /\ acc' = set_significand(acc, v)
        /\ Call("set_significand", acc, NoOperand, v)

UnaryMinus ==
    /\ Idle
    /\ InModel(acc)
    /\ acc' = operator_neg(acc)
    /\ Call("operator_neg", acc, NoOperand, 0)

Add ==
    /\ Idle
    /\ InModel(acc)
    /\ \E b \in Operands :
        LET t == addition_result_t(acc.width, acc.place, b.width, b.place)
        IN  /\ ValidType(t.width, t.place)
            /\ acc' = operator_plus(acc, b)
            /\ Call("operator_plus", acc, b, 0)

Sub ==
    /\ Idle
    /\ InModel(acc)
    /\ \E b \in Operands :
        LET t == addition_result_t(acc.width, acc.place, b.width, b.place)
        IN  /\ ValidType(t.width, t.place)
            /\ acc' = operator_minus(acc, b)
            /\ Call("operator_minus", acc, b, 0)

Mul ==
    /\ Idle
    /\ InModel(acc)
    /\ \E b \in Operands :
        /\ ValidType(acc.width + b.width - 1, acc.place + b.place)
        /\ acc' = operator_mul(acc, b)
        /\ Call("operator_mul", acc, b, 0)

\* a relational operator leaves *this alone and returns a bool
Relational(o, b, result) ==
    LET t == superset_t(acc.width, acc.place, b.width, b.place)
    IN  /\ InModel(acc)
        /\ ValidType(t.width, t.place)
        /\ acc' = acc
        /\ op' = o
        /\ in1' = acc
        /\ in2' = b
        /\ arg' = 0
        /\ dbl' = NoDouble
        /\ rnd' = "FE_TONEAREST"
        /\ rel' = result
        /\ UNCHANGED <<adder_vars, complex_vars>>

Eq ==
    /\ Idle
    /\ \E b \in Operands : Relational("operator_eq", b, operator_eq(acc, b))
Ne ==
    /\ Idle
    /\ \E b \in Operands : Relational("operator_ne", b, operator_ne(acc, b))
Lt ==
    /\ Idle
    /\ \E b \in Operands : Relational("operator_lt", b, operator_lt(acc, b))
Le ==
    /\ Idle
    /\ \E b \in Operands : Relational("operator_le", b, operator_le(acc, b))
Gt ==
    /\ Idle
    /\ \E b \in Operands : Relational("operator_gt", b, operator_gt(acc, b))
Ge ==
    /\ Idle
    /\ \E b \in Operands : Relational("operator_ge", b, operator_ge(acc, b))

Exp2 ==
    /\ Idle
    /\ InModel(acc)
    /\ \E e \in -MaxExp..MaxExp :
        /\ ValidType(acc.width, acc.place + e)
        /\ acc' = exp2(acc, e)
        /\ Call("exp2", acc, NoOperand, e)

\* a rounding function instantiated with LSB_PLACE = lsb returned result;
\* terms keeps s, the value its lambda returned to round_common, where
\* round_common called the lambda
Rounding(o, lsb, result, s) ==
    /\ InModel(acc)
    /\ ValidType(result.width, result.place)
    /\ acc' = result
    /\ op' = o
    /\ in1' = acc
    /\ in2' = NoOperand
    /\ arg' = lsb
    /\ dbl' = NoDouble
    /\ rnd' = "FE_TONEAREST"
    /\ rel' = FALSE
    /\ terms' = (IF acc.place = result.place THEN NoTerms ELSE <<s>>)
    /\ UNCHANGED <<acc_t, accumulator, thrown, complex_vars>>

Ceil ==
    /\ Idle
    /\ \E lsb \in LsbPlaces :
        /\ acc.place >= lsb \/ mask_is_constant(1 + lsb - acc.place)
        /\ \E r \in ceil(acc, lsb) : Rounding("ceil", lsb, r,
                     ceil_func(acc.place, lsb, acc.significand))

Floor ==
    /\ Idle
    /\ \E lsb \in LsbPlaces :
        \E r \in floor(acc, lsb) : Rounding("floor", lsb, r,
                     floor_func(acc.place, lsb, acc.significand))

Trunc ==
    /\ Idle
    /\ \E lsb \in LsbPlaces :
        /\ acc.place >= lsb \/ mask_is_constant(1 + lsb - acc.place)
        /\ \E r \in trunc(acc, lsb) : Rounding("trunc", lsb, r,
                     trunc_func(acc.place, lsb, acc.significand))

RoundHalfToEven ==
    /\ Idle
    /\ \E lsb \in LsbPlaces :
        /\ acc.place >= lsb \/ mask_is_constant(lsb - acc.place)
        /\ \E r \in round_half_to_even(acc, lsb) :
            Rounding("round_half_to_even", lsb, r,
                     round_half_to_even_func(acc.place, lsb, acc.significand))

RoundHalfAwayFromZero ==
    /\ Idle
    /\ \E lsb \in LsbPlaces :
        /\ acc.place >= lsb \/ half_is_constant(acc.width, acc.place, lsb)
        /\ \E r \in round_half_away_from_zero(acc, lsb) :
            Rounding("round_half_away_from_zero", lsb, r,
                     round_half_away_from_zero_func(acc.width, acc.place, lsb,
                         acc.significand))

RoundHalfTowardZero ==
    /\ Idle
    /\ \E lsb \in LsbPlaces :
        /\ acc.place >= lsb \/ half_is_constant(acc.width, acc.place, lsb)
        /\ \E r \in round_half_toward_zero(acc, lsb) :
            Rounding("round_half_toward_zero", lsb, r,
                     round_half_toward_zero_func(acc.width, acc.place, lsb,
                         acc.significand))

RoundHalfUp ==
    /\ Idle
    /\ \E lsb \in LsbPlaces :
        /\ acc.place >= lsb \/ half_is_constant(acc.width, acc.place, lsb)
        /\ \E r \in round_half_up(acc, lsb) : Rounding("round_half_up", lsb, r,
                     round_half_up_func(acc.width, acc.place, lsb,
                         acc.significand))

RoundHalfDown ==
    /\ Idle
    /\ \E lsb \in LsbPlaces :
        /\ acc.place >= lsb \/ mask_is_constant(lsb - acc.place)
        /\ \E r \in round_half_down(acc, lsb) :
            Rounding("round_half_down", lsb, r,
                     round_half_down_func(acc.place, lsb, acc.significand))

Next ==
    \/ NextStatement
    \/ DefaultConstruct
    \/ FromDouble
    \/ CopyFromNarrower
    \/ AssignFromNarrower
    \/ ReduceDynamicRange
    \/ SetSignificand
    \/ UnaryMinus
    \/ Add
    \/ Sub
    \/ Mul
    \/ Eq
    \/ Ne
    \/ Lt
    \/ Le
    \/ Gt
    \/ Ge
    \/ Exp2
    \/ Ceil
    \/ Floor
    \/ Trunc
    \/ RoundHalfToEven
    \/ RoundHalfAwayFromZero
    \/ RoundHalfTowardZero
    \/ RoundHalfUp
    \/ RoundHalfDown

Spec == Init /\ [][Next]_vars

\* ------------------------------------------------- the adders, one call
\* the accumulator types: significand_t<WIDTH1>, for the small widths and
\* for the widest one of the 32-bit storage, and std::int16_t
AccumulatorTypes ==
    {SignificandT(w) : w \in MIN_BIT_WIDTH..MaxWidth}
        \cup {SignificandT(INT_FAST32_DIGITS), Int16T}

\* the accumulators handed to an adder: for significand_t<WIDTH1> every
\* legal significand of the widest type and values beyond both ends, for
\* std::int16_t and for significand_t<32> the values an increment takes
\* beyond an end, and small ones
AccumulatorInputs(T) ==
    IF T.name = "int16_t"
    THEN (-32768 .. (-32768 + 2^MaxWidth)) \cup (-2 .. 2)
             \cup ((32767 - 2^MaxWidth) .. 32767)
    ELSE IF T.width = INT_FAST32_DIGITS
    THEN {INT_FAST32_MIN + k : k \in 0 .. 2^MaxWidth} \cup (-2 .. 2)
             \cup {INT_FAST32_MAX - k : k \in 0 .. 2^MaxWidth}
    ELSE SigInputs

\* the increments of a FixedPoint<WIDTH2, PLACE> with WIDTH1 >= WIDTH2
Increments(WIDTH1) == { b \in Operands : WIDTH1 >= b.width }

AdderInit ==
    /\ acc = NoOperand
    /\ op = "none"
    /\ in1 = NoOperand
    /\ in2 = NoOperand
    /\ arg = 0
    /\ dbl = NoDouble
    /\ rnd = "FE_TONEAREST"
    /\ rel = FALSE
    /\ acc_t \in AccumulatorTypes
    /\ accumulator \in AccumulatorInputs(acc_t)
    /\ thrown = FALSE
    /\ terms = NoTerms
    /\ cx = NoComplex
    /\ cy = NoComplex
    /\ cz = NoComplex

\* accumulator = adder(accumulator, b) returned r; terms keeps the value of
\* the local variable result, where the adder has one
AdderCall(o, b, r, results) ==
    /\ op' = o
    /\ arg' = accumulator
    /\ in2' = b
    /\ accumulator' = r
    /\ thrown' = FALSE
    /\ terms' = results
    /\ UNCHANGED <<acc, in1, dbl, rnd, rel, acc_t, complex_vars>>

SignificandAdder ==
    /\ Idle
    /\ \E b \in Operands :
        AdderCall("significand_adder", b,
                  significand_adder(acc_t, accumulator, b), NoTerms)

IntAdder ==
    /\ Idle
    /\ acc_t.name = "significand_t"
    /\ \E b \in Increments(acc_t.width) :
        AdderCall("int_adder", b, int_adder(acc_t.width, accumulator, b),
                  NoTerms)

\* a throw leaves the caller's accumulator as it was
ExactAdder ==
    /\ Idle
    /\ acc_t.name = "significand_t"
    /\ \E b \in Increments(acc_t.width) :
      \E r \in exact_adder(acc_t.width, accumulator, b) :
            /\ op' = "exact_adder"
            /\ arg' = accumulator
            /\ in2' = b
            /\ accumulator' = (IF r.thrown THEN accumulator ELSE r.value)
            /\ thrown' = r.thrown
            /\ terms' = <<r.result>>
            /\ UNCHANGED <<acc, in1, dbl, rnd, rel, acc_t, complex_vars>>

ClampAdder ==
    /\ Idle
    /\ acc_t.name = "significand_t"
    /\ \E b \in Increments(acc_t.width) :
      \E r \in clamp_adder(acc_t.width, accumulator, b) :
        AdderCall("clamp_adder", b, r.value, <<r.result>>)

AdderNext ==
    \/ SignificandAdder
    \/ IntAdder
    \/ ExactAdder
    \/ ClampAdder

SpecAdder == AdderInit /\ [][AdderNext]_vars

\* ------------------------------------------- the accumulation of n_i * a_i
\* multi_and_sum of the equivalence test: n_i of FixedPoint<WIDTH_n, 0>, a_i
\* of FixedPoint<WIDTH_r, PLACE_r>, the sum in significand_t<WIDTH_sum> with
\* WIDTH_sum = WIDTH_n + WIDTH_r - 1.  in1 and in2 are n2[0] and r2[0], whose
\* types the sum takes; arg is the sum of the n_i so far.
TermPlaces == {MinPlace}

\* the significands of the a_i
TermValues(WIDTH_r) ==
    (-MAX_SIGNIFICAND_VALUE(WIDTH_r)) .. MAX_SIGNIFICAND_VALUE(WIDTH_r)

MultiAndSumInit ==
    /\ \E WIDTH_n \in MIN_BIT_WIDTH..MaxCountWidth,
          WIDTH_r \in MIN_BIT_WIDTH..MaxTermWidth,
          PLACE_r \in TermPlaces :
        /\ in1 = FP(WIDTH_n, 0, 0)
        /\ in2 = FP(WIDTH_r, PLACE_r, 0)
        /\ acc = [operator_mul(in1, in2) EXCEPT !.significand = 0]
        /\ acc_t = SignificandT(WIDTH_n + WIDTH_r - 1)
        /\ terms = [a \in TermValues(WIDTH_r) |-> 0]
    /\ op = "none"
    /\ arg = 0
    /\ dbl = NoDouble
    /\ rnd = "FE_TONEAREST"
    /\ rel = FALSE
    /\ accumulator = 0
    /\ thrown = FALSE
    /\ cx = NoComplex
    /\ cy = NoComplex
    /\ cz = NoComplex

\* one turn of the loop of multi_and_sum: sum = significand_adder(sum,
\* n[i] * r[i]), the n_i being at most 2^(WIDTH_n - 1) - 1 in all
MultiAndSum ==
    /\ op \in {"none", "multi_and_sum"}
    /\ \E n \in 0 .. (MAX_SIGNIFICAND_VALUE(in1.width) - arg),
          a \in TermValues(in2.width) :
        LET n_i == set_significand(in1, n)
            r_i == set_significand(in2, a)
        IN  /\ accumulator' =
                   significand_adder(acc_t, accumulator, operator_mul(n_i, r_i))
            /\ terms' = [terms EXCEPT ![a] = @ + n]
            /\ arg' = arg + n
    /\ op' = "multi_and_sum"
    /\ UNCHANGED <<acc, in1, in2, dbl, rnd, rel, acc_t, thrown, complex_vars>>

\* decltype(n2[0] * r2[0]) sum2; sum2.set_significand(sum2_sig)
StoreSum ==
    /\ op \in {"none", "multi_and_sum"}
    /\ acc' = set_significand(acc, accumulator)
    /\ op' = "set_significand"
    /\ UNCHANGED <<in1, in2, arg, dbl, rnd, rel, acc_t, accumulator, thrown, terms,
                   complex_vars>>

\* one turn of the loops of "nothing remained", which start from
\* sum2.get_significand(): sum_significand =
\* significand_adder(sum_significand, -r2[i])
NothingRemained ==
    /\ op \in {"set_significand", "nothing remained"}
    /\ \E a \in DOMAIN terms :
        LET sum_significand ==
                IF op = "set_significand" THEN acc.significand ELSE accumulator
            r_i == set_significand(in2, a)
        IN  /\ terms[a] > 0
            /\ accumulator' =
                   significand_adder(acc_t, sum_significand, operator_neg(r_i))
            /\ terms' = [terms EXCEPT ![a] = @ - 1]
    /\ op' = "nothing remained"
    /\ UNCHANGED <<acc, in1, in2, arg, dbl, rnd, rel, acc_t, thrown, complex_vars>>

MultiAndSumNext ==
    \/ MultiAndSum
    \/ StoreSum
    \/ NothingRemained

SpecMultiAndSum == MultiAndSumInit /\ [][MultiAndSumNext]_vars

\* ---------------------------------------------- the operations of Complex
ComplexPlaces == {MinPlace, 0}

\* the operands of the tests of operator*, inphase() and quadrature(), as
\* the constructor from double leaves them (1.23 at place -4 is 20/16)
TestComplexOperands ==
    { Complex(FP(8, -4, 20), FP(8, -4, -51)),
      Complex(FP(7, -5, 7), FP(7, -5, -14)),
      Complex(FP(8, 0, 63), FP(8, 0, 127)),
      Complex(FP(2, 0, -1), FP(2, 0, 0)),
      Complex(FP(2, 0, 0), FP(2, 0, 1)),
      Complex(FP(8, -4, 84), FP(8, -4, -37)),
      Complex(FP(5, -2, -5), FP(5, -2, 8)) }

\* the parts of the small types
ComplexParts ==
    { v \in Operands : v.width <= MaxComplexWidth /\ v.place \in ComplexPlaces }

\* every Complex<FixedPoint<WIDTH, PLACE>> of the small types, and those of
\* the tests
ComplexOperands ==
    { z \in [re : ComplexParts, im : ComplexParts] :
        z.re.width = z.im.width /\ z.re.place = z.im.place }
        \cup TestComplexOperands

ComplexInit ==
    /\ acc = NoOperand
    /\ op = "none"
    /\ in1 = NoOperand
    /\ in2 = NoOperand
    /\ arg = 0
    /\ dbl = NoDouble
    /\ rnd = "FE_TONEAREST"
    /\ rel = FALSE
    /\ acc_t = NoAccumulator
    /\ accumulator = 0
    /\ thrown = FALSE
    /\ terms = NoTerms
    /\ cx \in ComplexOperands
    /\ cy \in ComplexOperands
    /\ cz = NoComplex

\* a call of o on cx that returns the Complex z or the FixedPoint v
ComplexCall(o, z, v) ==
    /\ op' = o
    /\ cz' = z
    /\ acc' = v
    /\ UNCHANGED <<in1, in2, arg, dbl, rnd, rel, adder_vars, cx, cy>>

ComplexMul ==
    /\ Idle
    /\ ComplexCall("Complex::operator*", Complex_operator_mul(cx, cy), NoOperand)

ComplexConj ==
    /\ Idle
    /\ ComplexCall("Complex::conj", conj(cx), NoOperand)

ComplexInphase ==
    /\ Idle
    /\ ComplexCall("Complex::inphase", NoComplex, inphase(cx, cy))

ComplexQuadrature ==
    /\ Idle
    /\ ComplexCall("Complex::quadrature", NoComplex, quadrature(cx, cy))

ComplexNext ==
    \/ ComplexMul
    \/ ComplexConj
    \/ ComplexInphase
    \/ ComplexQuadrature

SpecComplex == ComplexInit /\ [][ComplexNext]_vars

\* ------------------------------------------------------------- properties
\* s is a legal significand of a WIDTH-bit FixedPoint
\* 2^(WIDTH-1) - 1, written so that WIDTH = 32 is evaluated within 32 bits
MaxMagnitude(WIDTH) == (2^(WIDTH - 2) - 1) + 2^(WIDTH - 2)
LegalRange(WIDTH, s) == -MaxMagnitude(WIDTH) <= s /\ s <= MaxMagnitude(WIDTH)
Legal(v) == LegalRange(v.width, v.significand)

\* the real value of v in units of 2^RealLsb, a place below every place an
\* object of the model has
RealLsb == 2 * MinPlace - MaxExp - 1
Real(v) == v.significand * 2^(v.place - RealLsb)

\* C1: after any sequence of operations every FixedPoint<WIDTH, PLACE> object
\* (the result and both operands of the last call) holds a significand in
\* [-(2^(WIDTH-1)-1), 2^(WIDTH-1)-1]; none holds -2^(WIDTH-1).
C1_SignificandInRange == Legal(acc) /\ Legal(in1) /\ Legal(in2)

\* set_significand was handed -2^(WIDTH-1) and stored -(2^(WIDTH-1)-1)
C1_Witness ==
    /\ op = "set_significand"
    /\ arg = -(2^(in1.width - 1))
    /\ acc.significand = -(2^(acc.width - 1) - 1)

\* C2: for every pair of operand types with a valid addition result type and
\* all legal significands, the real value of a + b is real(a) + real(b), that
\* of a - b is real(a) - real(b), and the result significand is in the legal
\* range of the deduced type, also when the operands' bit ranges do not
\* overlap and no extra bit is added.
C2_AddSubExact ==
    /\ op = "operator_plus" =>
        Real(acc) = Real(in1) + Real(in2) /\ Legal(acc)
    /\ op = "operator_minus" =>
        Real(acc) = Real(in1) - Real(in2) /\ Legal(acc)

\* the bit ranges do not overlap, no extra bit was added, and the sum is the
\* largest value of the result type
C2_Witness ==
    /\ op = "operator_plus"
    /\ in1.place >= in2.width + in2.place - 1
    /\ acc.width = in1.width + in1.place - in2.place
    /\ in2.significand > 0
    /\ acc.significand = 2^(acc.width - 1) - 1

\* C3: a * b has place PA + PB and width WA + WB - 1, its significand is the
\* exact product of the operand significands, and the product is in the legal
\* range of the result type.
C3_MulExact ==
    op = "operator_mul" =>
        /\ acc.place = in1.place + in2.place
        /\ acc.width = in1.width + in2.width - 1
        /\ acc.significand = in1.significand * in2.significand
        /\ Legal(acc)

\* both operands at an extreme of a type wider than the minimum
C3_Witness ==
    /\ op = "operator_mul"
    /\ in1.width > MIN_BIT_WIDTH
    /\ in2.width > MIN_BIT_WIDTH
    /\ in1.significand = -(2^(in1.width - 1) - 1)
    /\ in2.significand = 2^(in2.width - 1) - 1
    /\ acc.significand = in1.significand * in2.significand

\* C4: for every double d, also one whose scaled magnitude is beyond the legal
\* or the storage range of the significand, and every valid (WIDTH, PLACE),
\* under the same rounding mode the value of FixedPoint<WIDTH, PLACE>(d)
\* equals limit_precision(d, WIDTH, PLACE).
C4_FromDoubleIsLimitPrecision ==
    op = "from_double" =>
        dbl_eq(to_double(acc), limit_precision(dbl, acc.width, acc.place, rnd))

\* C5: for a source type narrower than the destination type (P <= PS and
\* W + P >= WS + PS) and every legal source significand, copy construction
\* and assignment give a destination of the same real value, with
\* significand = source significand * 2^(PS - P), in the destination's legal
\* range.
C5_NarrowerCopyExact ==
    /\ op = "copy_narrower" =>
        /\ Real(acc) = Real(in1)
        /\ acc.significand = in1.significand * 2^(in1.place - acc.place)
        /\ Legal(acc)
    /\ op = "assign_narrower" =>
        /\ acc.width = in1.width
        /\ acc.place = in1.place
        /\ Real(acc) = Real(in2)
        /\ acc.significand = in2.significand * 2^(in2.place - acc.place)
        /\ Legal(acc)

\* a source at its most negative value, shifted into a destination that has
\* no bit to spare above it
C5_Witness ==
    /\ op = "copy_narrower"
    /\ in1.place > acc.place
    /\ acc.width + acc.place = in1.width + in1.place
    /\ in1.significand = -(2^(in1.width - 1) - 1)
    /\ acc.significand = in1.significand * 2^(in1.place - acc.place)

\* C6: the result type of a + b and a - b for FixedPoint<WA, PA> and
\* FixedPoint<WB, PB> has place min(PA, PB) and width
\* max(WA + PA, WB + PB) - min(PA, PB) + extra, where extra = 0 if
\* PA >= WB + PB - 1 or PB >= WA + PA - 1 and extra = 1 otherwise; the type
\* deduced for (a, b) is the type deduced for (b, a).
C6_AdditionResultType ==
    op \in {"operator_plus", "operator_minus"} =>
        LET WA == in1.width
            PA == in1.place
            WB == in2.width
            PB == in2.place
            extra == IF PA >= WB + PB - 1 \/ PB >= WA + PA - 1 THEN 0 ELSE 1
            msb == IF WA + PA > WB + PB THEN WA + PA ELSE WB + PB
            lsb == IF PA < PB THEN PA ELSE PB
        IN  /\ acc.place = lsb
            /\ acc.width = msb - lsb + extra
            /\ operator_plus(in2, in1).width = acc.width
            /\ operator_plus(in2, in1).place = acc.place
            /\ operator_minus(in2, in1).width = acc.width
            /\ operator_minus(in2, in1).place = acc.place

\* a subtraction whose second operand lies wholly above the first: no extra
\* bit, and the places and widths of the operands differ
C6_Witness ==
    /\ op = "operator_minus"
    /\ in2.place >= in1.width + in1.place - 1
    /\ in2.place > in1.place
    /\ in2.width /= in1.width
    /\ acc.width = in2.width + in2.place - in1.place

\* the six relations on real values
RealRel(o, x, y) ==
    CASE o = "operator_eq" -> x = y
      [] o = "operator_ne" -> x /= y
      [] o = "operator_lt" -> x < y
      [] o = "operator_le" -> x <= y
      [] o = "operator_gt" -> x > y
      [] o = "operator_ge" -> x >= y

RelationalOps ==
    {"operator_eq", "operator_ne", "operator_lt", "operator_le",
     "operator_gt", "operator_ge"}

\* C7: for operand types with a valid common superset type and all legal
\* significands, each of ==, !=, <, <=, >, >= returns the truth value of the
\* same relation between the operands' real values (significand * 2^place);
\* widening both operands to the superset type changes neither value.
C7_RelationalOnRealValues ==
    op \in RelationalOps =>
        /\ rel = RealRel(op, Real(in1), Real(in2))
        /\ Real(widen_pair(in1, in2).op1) = Real(in1)
        /\ Real(widen_pair(in1, in2).op2_ext) = Real(in2)
        /\ Legal(widen_pair(in1, in2).op1)
        /\ Legal(widen_pair(in1, in2).op2_ext)

\* a < b is true although a's significand is the larger one
C7_Witness ==
    /\ op = "operator_lt"
    /\ rel
    /\ in1.place < in2.place
    /\ in1.significand > in2.significand
    /\ in2.significand > 0

\* C8: for every width W and every legal significand s, unary minus yields a
\* value of the same type with significand -s, again in
\* [-(2^(W-1)-1), 2^(W-1)-1], and -(-x) = x.
C8_UnaryMinus ==
    op = "operator_neg" =>
        /\ acc.width = in1.width
        /\ acc.place = in1.place
        /\ acc.significand = 0 - in1.significand
        /\ Legal(acc)
        /\ operator_neg(acc) = in1

\* the most negative significand of a type was negated
C8_Witness ==
    /\ op = "operator_neg"
    /\ in1.significand = -(2^(in1.width - 1) - 1)
    /\ acc.significand = 2^(acc.width - 1) - 1
    /\ in1.width > MIN_BIT_WIDTH

RoundHalfOps ==
    {"round_half_to_even", "round_half_away_from_zero",
     "round_half_toward_zero", "round_half_up", "round_half_down"}

\* the last call rounded in1 at LSB_PLACE = arg, above in1's own place
RoundedAbove == op \in RoundHalfOps /\ arg > in1.place

\* the weight of LSB_PLACE in units of in1's LSB
Unit == 2^(arg - in1.place)

\* LSB_PLACE lies so far above in1's place that the significands of the
\* model are all below half a unit: 0 is the nearest multiple of every one
FarGap == arg - in1.place > 30

\* in1 lies exactly halfway between two adjacent multiples of 2^LSB_PLACE
Midway == ~FarGap /\ 2 * (in1.significand % Unit) = Unit

\* the multiples of 2^LSB_PLACE around in1, in units of 2^LSB_PLACE
Lower == in1.significand \div Unit
Upper == Lower + 1

\* C9: for a value exactly halfway between two adjacent multiples of
\* 2^LSB_PLACE, positive or negative, round_half_to_even returns the neighbour
\* whose significand at LSB_PLACE is even, round_half_away_from_zero the one of
\* larger magnitude, round_half_toward_zero the one of smaller magnitude,
\* round_half_up the larger one and round_half_down the smaller one.
C9_MidwayPolicies ==
    (RoundedAbove /\ Midway) =>
        /\ acc.place = arg
        /\ op = "round_half_to_even" =>
            acc.significand = (IF Lower % 2 = 0 THEN Lower ELSE Upper)
        /\ op = "round_half_away_from_zero" =>
            acc.significand = (IF in1.significand > 0 THEN Upper ELSE Lower)
        /\ op = "round_half_toward_zero" =>
            acc.significand = (IF in1.significand > 0 THEN Lower ELSE Upper)
        /\ op = "round_half_up" => acc.significand = Upper
        /\ op = "round_half_down" => acc.significand = Lower

\* a negative midway value between an odd lower and an even upper neighbour,
\* rounded to the even one
C9_Witness ==
    /\ op = "round_half_to_even"
    /\ arg > in1.place
    /\ Midway
    /\ in1.significand < 0
    /\ Lower % 2 = 1
    /\ Upper /= 0
    /\ acc.significand = Upper

\* C10: for every legal x and every LSB_PLACE > PLACE such that x is not
\* exactly halfway between two adjacent multiples of 2^LSB_PLACE, the five
\* round_half_* functions return the same result, the one multiple of
\* 2^LSB_PLACE nearest to x (x itself when x is such a multiple).
C10_NearestOffMidway ==
    (RoundedAbove /\ ~Midway) =>
        LET d == in1.significand - acc.significand * Unit
        IN  /\ acc.place = arg
            /\ FarGap => acc.significand = 0
            /\ ~FarGap => 2 * (IF d < 0 THEN 0 - d ELSE d) < Unit
            /\ (~FarGap /\ in1.significand % Unit = 0) => Real(acc) = Real(in1)
            /\ \A r \in round_half_to_even(in1, arg) : acc.significand = r.significand
            /\ \A r \in round_half_away_from_zero(in1, arg) : acc.significand = r.significand
            /\ \A r \in round_half_toward_zero(in1, arg) : acc.significand = r.significand
            /\ \A r \in round_half_up(in1, arg) : acc.significand = r.significand
            /\ \A r \in round_half_down(in1, arg) : acc.significand = r.significand

\* a negative value above the midway point of its interval, rounded up by
\* round_half_down
C10_Witness ==
    /\ op = "round_half_down"
    /\ arg > in1.place + 1
    /\ ~FarGap
    /\ in1.significand < 0
    /\ 2 * (in1.significand % Unit) > Unit
    /\ acc.significand = Upper

\* n * 2^k is the least multiple of 2^k that is >= s.  A significand of the
\* model is below 2^30 in magnitude, so from k = 31 on the multiples around
\* it are -2^k, 0 and 2^k.
LeastMultipleAbove(n, s, k) ==
    IF k > 30 THEN n = (IF s > 0 THEN 1 ELSE 0)
    ELSE n * 2^k >= s /\ (n - 1) * 2^k < s

\* n * 2^k is the greatest multiple of 2^k that is <= s
GreatestMultipleBelow(n, s, k) ==
    IF k > 30 THEN n = (IF s < 0 THEN -1 ELSE 0)
    ELSE n * 2^k <= s /\ (n + 1) * 2^k > s

\* s is a multiple of 2^k
IsMultiple(s, k) == IF k > 30 THEN s = 0 ELSE s % 2^k = 0

\* C11: for every legal x and every LSB_PLACE > PLACE, ceil returns the least
\* multiple of 2^LSB_PLACE that is >= x and floor the greatest multiple that
\* is <= x, for positive and negative x alike; both return x unchanged when
\* x is a multiple of 2^LSB_PLACE.
C11_CeilFloor ==
    LET k == arg - in1.place
        s == in1.significand
        n == acc.significand
    IN  /\ (op = "ceil" /\ k > 0) =>
            /\ acc.place = arg
            /\ LeastMultipleAbove(n, s, k)
            /\ IsMultiple(s, k) => GreatestMultipleBelow(n, s, k)
        /\ (op = "floor" /\ k > 0) =>
            /\ acc.place = arg
            /\ GreatestMultipleBelow(n, s, k)
            /\ IsMultiple(s, k) => LeastMultipleAbove(n, s, k)

\* C12: for every legal x and every LSB_PLACE > PLACE, trunc returns x rounded
\* toward zero to a multiple of 2^LSB_PLACE (floor for x >= 0, ceil for
\* x < 0), in a result type without a carry bit, of width
\* WIDTH + PLACE - LSB_PLACE (2 when WIDTH + PLACE <= 1 + LSB_PLACE), which
\* holds the result.
C12_TruncTowardZero ==
    LET k == arg - in1.place
        s == in1.significand
        n == acc.significand
    IN  (op = "trunc" /\ k > 0) =>
            /\ acc.place = arg
            /\ s >= 0 => GreatestMultipleBelow(n, s, k)
            /\ s < 0 => LeastMultipleAbove(n, s, k)
            /\ acc.width = (IF in1.width + in1.place <= 1 + arg THEN 2
                            ELSE in1.width + in1.place - arg)
            /\ Legal(acc)

\* a negative value that is no multiple of 2^LSB_PLACE, truncated up to the
\* most negative significand of the result type
C12_Witness ==
    /\ op = "trunc"
    /\ arg > in1.place
    /\ ~FarGap
    /\ in1.significand < 0
    /\ in1.significand % Unit /= 0
    /\ acc.width > 2
    /\ acc.significand = Upper
    /\ acc.significand = -(2^(acc.width - 1) - 1)

RoundingOps ==
    {"ceil", "floor", "trunc"} \cup RoundHalfOps

\* C13: for every source type, every LSB_PLACE and every rounding function:
\* if PLACE >= LSB_PLACE the result has the source's type and value;
\* otherwise it has place LSB_PLACE and a width of at most
\* WIDTH + PLACE - LSB_PLACE + 1 (2 at least), and the rounded value of every
\* legal significand, the extremes included, is in the legal range of the
\* result type: rounding never wraps or clamps.
C13_RoundResultHolds ==
    op \in RoundingOps =>
        IF in1.place >= arg
        THEN acc = in1
        ELSE /\ acc.place = arg
             /\ acc.width >= 2
             /\ acc.width <= Max(2, in1.width + in1.place - arg + 1)
             /\ Legal(acc)

\* ------------------------------------------------------------- the adders
\* the true sum of the accumulator handed to the adder and the increment
TrueSum == arg + in2.significand
\* the true sum lies within 32 bits, where it can be written down
TrueSumHeld ==
    /\ in2.significand > 0 => arg <= 2147483647 - in2.significand
    /\ in2.significand < 0 => arg >= (-2147483647 - 1) - in2.significand

\* an integer WIDTH-bit two's complement holds
FitsInBits(WIDTH, v) ==
    -MaxMagnitude(WIDTH) - 1 <= v /\ v <= MaxMagnitude(WIDTH)
\* the true sum fits WIDTH bits, WIDTH <= 32
TrueSumFits(WIDTH) == TrueSumHeld /\ FitsInBits(WIDTH, TrueSum)

\* r is congruent to a + b modulo 2^WIDTH, WIDTH <= 32: compared on the
\* 16-bit halves of r and of the sum of the halves of a and b
Congruent(r, a, b, WIDTH) ==
    LET lo == (a % 65536) + (b % 65536)
        hi == (a \div 65536) + (b \div 65536) + (lo \div 65536)
    IN  IF WIDTH >= 16
        THEN /\ (r % 65536) = (lo % 65536)
             /\ ((r \div 65536) - hi) % 2^(WIDTH - 16) = 0
        ELSE ((r % 65536) - (lo % 65536)) % 2^WIDTH = 0
CongruentToTrueSum(r, WIDTH) == Congruent(r, arg, in2.significand, WIDTH)

\* C14: exact_adder, handed a legal accumulator and an increment no wider,
\* returns the true sum when the sum fits in WIDTH1 bits and throws
\* otherwise, leaving nothing returned: it never returns another value.
C14_ExactAdder ==
    (op = "exact_adder" /\ LegalRange(acc_t.width, arg)) =>
        IF TrueSumFits(acc_t.width)
        THEN ~thrown /\ accumulator = TrueSum
        ELSE thrown /\ accumulator = arg

\* a sum one beyond the WIDTH1-bit range threw
C14_Witness ==
    /\ op = "exact_adder"
    /\ acc_t.width < 32
    /\ LegalRange(acc_t.width, arg)
    /\ TrueSum = 2^(acc_t.width - 1)
    /\ thrown

\* C15: int_adder returns, for any accumulator, the one integer of
\* [-2^(WIDTH1-1), 2^(WIDTH1-1) - 1] congruent to the true sum modulo
\* 2^WIDTH1, which is the true sum when that lies in the interval.
C15_IntAdderWraps ==
    op = "int_adder" =>
        /\ ~thrown
        /\ FitsInBits(acc_t.width, accumulator)
        /\ CongruentToTrueSum(accumulator, acc_t.width)
        /\ TrueSumFits(acc_t.width) => accumulator = TrueSum

\* a sum beyond the positive end wrapped to -2^(WIDTH1-1), which is no
\* legal significand of width WIDTH1
C15_Witness ==
    /\ op = "int_adder"
    /\ acc_t.width < 32
    /\ LegalRange(acc_t.width, arg)
    /\ TrueSum = 2^(acc_t.width - 1)
    /\ accumulator = -(2^(acc_t.width - 1))
    /\ ~LegalRange(acc_t.width, accumulator)

\* C16: clamp_adder, handed a legal accumulator and an increment no wider,
\* returns the true sum limited to the legal range of width WIDTH1: the
\* result is a legal significand and nothing is thrown.
C16_ClampAdder ==
    (op = "clamp_adder" /\ LegalRange(acc_t.width, arg)) =>
        /\ ~thrown
        /\ accumulator =
              IF TrueSumHeld
              THEN Min(Max(TrueSum, -MaxMagnitude(acc_t.width)),
                       MaxMagnitude(acc_t.width))
              ELSE IF in2.significand > 0
              THEN MaxMagnitude(acc_t.width)
              ELSE -MaxMagnitude(acc_t.width)
        /\ LegalRange(acc_t.width, accumulator)

\* a sum of -2^(WIDTH1-1), which WIDTH1 bits hold, was limited
C16_Witness ==
    /\ op = "clamp_adder"
    /\ acc_t.width < 32
    /\ LegalRange(acc_t.width, arg)
    /\ TrueSum = -(2^(acc_t.width - 1))
    /\ accumulator = TrueSum + 1

\* C17: significand_adder returns the true sum converted to T with no range
\* check: the sum itself for significand_t, and for a 16-bit T the value of
\* [-32768, 32767] congruent to it modulo 2^16, so that a sum of 32769 gives
\* -32767, one of -32769 gives 32767 and one of -32768 gives -32768.
C17_SignificandAdder ==
    op = "significand_adder" =>
        /\ ~thrown
        /\ acc_t.name = "significand_t" =>
            /\ TrueSumHeld => accumulator = TrueSum
            /\ CongruentToTrueSum(accumulator, 32)
        /\ acc_t.name = "int16_t" =>
            /\ FitsInBits(16, accumulator)
            /\ (accumulator - TrueSum) % 65536 = 0
            /\ TrueSum = 32769 => accumulator = -32767
            /\ TrueSum = -32769 => accumulator = 32767
            /\ TrueSum = -32768 => accumulator = -32768

\* a 16-bit accumulator went from the positive end to -32767
C17_Witness ==
    /\ op = "significand_adder"
    /\ acc_t = Int16T
    /\ arg > 0
    /\ TrueSum = 32769
    /\ accumulator = -32767

\* ------------------------------------------- the accumulation of n_i * a_i
\* C18: with the n_i non-negative and at most 2^(Wn-1) - 1 in all, every
\* partial sum of the n_i * a_i, in any order, is a legal significand of the
\* product type FixedPoint<Wn+Wa-1, P>, set_significand stores the sum
\* unchanged, every remainder of the subtractions is legal too, and when
\* each a_i has been subtracted n_i times the accumulator is zero.
C18_AccumulationBudget ==
    LET WIDTH_sum == in1.width + in2.width - 1
    IN  /\ LegalRange(WIDTH_sum, accumulator)
        /\ op \in {"set_significand", "nothing remained"} =>
            /\ acc.width = WIDTH_sum
            /\ acc.place = in2.place
        /\ op = "set_significand" => acc.significand = accumulator
        /\ (op = "nothing remained" /\ \A a \in DOMAIN terms : terms[a] = 0)
               => accumulator = 0

\* the whole budget went to the least a_i and was subtracted again
C18_Witness ==
    /\ op = "nothing remained"
    /\ in1.width = MaxCountWidth
    /\ in2.width = MaxTermWidth
    /\ arg = 2^(MaxCountWidth - 1) - 1
    /\ acc.significand = -(arg * (2^(MaxTermWidth - 1) - 1))
    /\ \A a \in DOMAIN terms : terms[a] = 0
    /\ accumulator = 0

\* ----------------------------------------------------------------- Complex
\* C19: the product of x = a + bi of Complex<FixedPoint<W, P>> and
\* y = c + di of Complex<FixedPoint<W2, P2>> has the real part ac - bd and
\* the imaginary part ad + bc exactly, both of the type the multiplication
\* rule and then the addition rule give, FixedPoint<W + W2, P + P2>, and
\* both legal: nothing overflows.
C19_ComplexProduct ==
    op = "Complex::operator*" =>
        LET a == cx.re.significand
            b == cx.im.significand
            c == cy.re.significand
            d == cy.im.significand
            W == cx.re.width + cy.re.width
            P == cx.re.place + cy.re.place
        IN  /\ cz.re = FP(W, P, a * c - b * d)
            /\ cz.im = FP(W, P, a * d + b * c)
            /\ Legal(cz.re)
            /\ Legal(cz.im)

\* FixedPointComplex<8, -4>(1.23, -3.21) * FixedPointComplex<7, -5>(0.23,
\* -0.43) has width 15 and place -9
C19_Witness ==
    /\ op = "Complex::operator*"
    /\ cx = Complex(FP(8, -4, 20), FP(8, -4, -51))
    /\ cy = Complex(FP(7, -5, 7), FP(7, -5, -14))
    /\ cz = Complex(FP(15, -9, -574), FP(15, -9, -637))

----------------------------------------------------------------------------
----------------------------------------------------------------------------
\* ------------------------------------------------- clamp<WIDTH>, applied
\* the arguments of clamp<WIDTH>(significand_t<WIDTH> i): the values around
\* the bounds of every width, and the ends of the storage type
ClampInputs ==
    (-(2^MaxWidth) .. 2^MaxWidth)
        \cup {INT_FAST32_MIN, INT_FAST32_MIN + 1, INT_FAST32_MAX}

ClampInit ==
    /\ acc = NoOperand
    /\ op = "none"
    /\ in1 = NoOperand
    /\ in2 = NoOperand
    /\ arg \in ClampInputs
    /\ dbl = NoDouble
    /\ rnd = "FE_TONEAREST"
    /\ rel = FALSE
    /\ acc_t \in {SignificandT(w) : w \in MIN_BIT_WIDTH..MaxWidth}
    /\ accumulator = arg
    /\ thrown = FALSE
    /\ terms = NoTerms
    /\ cx = NoComplex
    /\ cy = NoComplex
    /\ cz = NoComplex

\* accumulator = clamp<WIDTH>(accumulator); terms keeps the values returned
ClampCall(o) ==
    /\ op' = o
    /\ accumulator' = clamp(acc_t.width, accumulator)
    /\ terms' = Append(terms, accumulator')
    /\ UNCHANGED <<acc, in1, in2, arg, dbl, rnd, rel, acc_t, thrown,
                   complex_vars>>

Clamp ==
    /\ Idle
    /\ ClampCall("clamp")

ClampAgain ==
    /\ op = "clamp"
    /\ ClampCall("clamp_clamp")

ClampNext ==
    \/ Clamp
    \/ ClampAgain

SpecClamp == ClampInit /\ [][ClampNext]_vars

\* C22: clamp<WIDTH> returns a value for every argument of its parameter
\* type, clamp(clamp(x)) = clamp(x), and clamp(x) = x exactly when
\* -(2^(WIDTH-1)-1) <= x <= 2^(WIDTH-1)-1.
C22_ClampIdempotent ==
    /\ op \in {"clamp", "clamp_clamp"} =>
           /\ terms[1] \in Int
           /\ terms[1] = arg <=> LegalRange(acc_t.width, arg)
    /\ op = "clamp_clamp" => terms[2] = terms[1]

\* the second clamp of an argument below the range returned the lower
\* bound again; the first had changed the argument
C22_Witness ==
    /\ op = "clamp_clamp"
    /\ arg < -(2^(acc_t.width - 1) - 1)
    /\ terms[1] /= arg
    /\ terms[2] = -(2^(acc_t.width - 1) - 1)

----------------------------------------------------------------------------
\* --------------------------------- FixedPoint<WIDTH, PLACE>, instantiated
\* the template arguments a program may write
TypeWidths == (MIN_BIT_WIDTH - TypeMargin) .. (MAX_BIT_WIDTH + TypeMargin)
TypePlaces(WIDTH) ==
    ((MIN_LSB_PLACE - TypeMargin) .. (MIN_LSB_PLACE + TypeMargin))
        \cup {-4, 0}
        \cup ((MAX_MSB_PLACE - WIDTH - TypeMargin)
                 .. (MAX_MSB_PLACE - WIDTH + TypeMargin))

FixedPointT(WIDTH, PLACE) ==
    [name |-> "FixedPoint", width |-> WIDTH, place |-> PLACE]

TypeInit ==
    /\ acc = NoOperand
    /\ op = "none"
    /\ in1 = NoOperand
    /\ in2 = NoOperand
    /\ arg = 0
    /\ dbl = NoDouble
    /\ rnd = "FE_TONEAREST"
    /\ rel = FALSE
    /\ acc_t \in {FixedPointT(w, p) : w \in TypeWidths,
                                       p \in UNION {TypePlaces(v) : v \in TypeWidths}}
    /\ acc_t.place \in TypePlaces(acc_t.width)
    /\ accumulator = 0
    /\ thrown = FALSE
    /\ terms = NoTerms
    /\ cx = NoComplex
    /\ cy = NoComplex
    /\ cz = NoComplex

\* FixedPoint<WIDTH, PLACE> a; -- the class is instantiated and the object
\* default-constructed, or one of the static_asserts stops the compilation
Instantiate ==
    /\ Idle
    /\ IF ValidType(acc_t.width, acc_t.place)
       THEN /\ acc' = FP(acc_t.width, acc_t.place, 0)
            /\ op' = "FixedPoint"
       ELSE /\ acc' = acc
            /\ op' = "static_assert"
    /\ UNCHANGED <<in1, in2, arg, dbl, rnd, rel, adder_vars, complex_vars>>

\* a.width, a.place
ReadWidthPlace ==
    /\ op = "FixedPoint"
    /\ op' = "width"
    /\ arg' = acc.width
    /\ accumulator' = acc.place
    /\ UNCHANGED <<acc, in1, in2, dbl, rnd, rel, acc_t, thrown, terms,
                   complex_vars>>

TypeNext ==
    \/ Instantiate
    \/ ReadWidthPlace

SpecType == TypeInit /\ [][TypeNext]_vars

\* the places the static_asserts on PLACE accept for a width: not below
\* double's lowest exponent, and the MSB not above double's highest
PlaceInRange == -1022 <= acc_t.place /\ acc_t.width + acc_t.place <= 1024

Instantiated == op \in {"FixedPoint", "width"}

\* C23 as stated: the accepted widths are exactly 2..53 -- WIDTH < 2 or
\* WIDTH > 53 is rejected at compile time, and every WIDTH in 2..53 with an
\* in-range PLACE is accepted.
C23_AcceptedWidths2To53 ==
    op /= "none" =>
        /\ (acc_t.width < 2 \/ acc_t.width > 53) => op = "static_assert"
        /\ (2 <= acc_t.width /\ acc_t.width <= 53 /\ PlaceInRange)
              => Instantiated

\* C23, amended: the accepted widths are exactly 2..54 -- WIDTH < 2 or
\* WIDTH > 54 is rejected at compile time, and every WIDTH in 2..54 with an
\* in-range PLACE is accepted.
C23_AcceptedWidths2To54 ==
    op /= "none" =>
        /\ (acc_t.width < 2 \/ acc_t.width > 54) => op = "static_assert"
        /\ (2 <= acc_t.width /\ acc_t.width <= 54 /\ PlaceInRange)
              => (Instantiated /\ acc.width = acc_t.width
                               /\ acc.place = acc_t.place)

\* FixedPoint<54, -4> is instantiated and its width read (the "width" test)
C23_Witness ==
    /\ op = "width"
    /\ acc_t = FixedPointT(54, -4)
    /\ arg = 54

----------------------------------------------------------------------------
\* ------------------------------------------- operator double(), any width
\* std::numeric_limits<double>::digits
DBL_MANT_DIG == 53
\* the place of the lowest bit of a subnormal double
DBL_TRUE_MIN_EXP == MIN_LSB_PLACE - (DBL_MANT_DIG - 1)

\* A significand of up to 64 bits, and a double of any magnitude, is held as
\* its sign and the set of the places of the 1 bits of its magnitude.
BigSig(neg, bits) == [neg |-> neg, bits |-> bits]
BigFin(neg, bits) == [cls |-> "fin", neg |-> neg, bits |-> bits]
BigInf(neg) == [cls |-> "inf", neg |-> neg, bits |-> {}]

MaxOf(S) == CHOOSE k \in S : \A j \in S : j <= k

\* bits + 2^p, the carry running up to the first 0 bit
add_bit(bits, p) ==
    LET q == CHOOSE c \in p .. (MaxOf(bits \cup {p}) + 1) :
                 c \notin bits /\ \A r \in p .. (c - 1) : r \in bits
    IN  (bits \ (p .. (q - 1))) \cup {q}

\* bits rounded to a multiple of 2^lo, to nearest and ties to even
round_at(bits, lo) ==
    LET kept == {k \in bits : k >= lo}
        tie == (lo - 1) \in bits
        below == \E k \in bits : k < lo - 1
    IN  IF tie /\ (below \/ lo \in kept) THEN add_bit(kept, lo) ELSE kept

\* the conversion of the integer argument of std::ldexp to double
significand_to_double(i) ==
    IF i.bits = {} THEN BigFin(FALSE, {})
    ELSE BigFin(i.neg, round_at(i.bits, MaxOf(i.bits) - (DBL_MANT_DIG - 1)))

\* std::ldexp(x, e)
ldexp(x, e) ==
    LET shifted == {k + e : k \in x.bits}
        lo == Max(MaxOf(shifted) - (DBL_MANT_DIG - 1), DBL_TRUE_MIN_EXP)
        r == round_at(shifted, lo)
    IN  IF x.bits = {} THEN x
        ELSE IF r /= {} /\ MaxOf(r) >= MAX_MSB_PLACE THEN BigInf(x.neg)
        ELSE BigFin(x.neg, r)

\* operator double(): std::ldexp(significand, PLACE)
operator_double(this) == ldexp(significand_to_double(this.significand), this.place)

\* the types operator double() is called on
BigWidths ==
    {MIN_BIT_WIDTH, INT_FAST32_DIGITS, INT_FAST32_DIGITS + 1}
        \cup ((MAX_BIT_WIDTH - BigMargin) .. MAX_BIT_WIDTH)
BigPlaces(WIDTH) == {MIN_LSB_PLACE, -4, 0, MAX_MSB_PLACE - WIDTH}
\* magnitudes of the legal significands of FixedPoint<WIDTH, PLACE>: zero,
\* the least, the greatest, and those that span all WIDTH - 1 bits
BigMagnitudes(WIDTH) ==
    {{}, {0}, {WIDTH - 2}, {0, WIDTH - 2}, 0 .. (WIDTH - 2),
     1 .. (WIDTH - 2), {0} \cup ((WIDTH - 3) .. (WIDTH - 2))}
BigOperands ==
    UNION { { FP(w, p, BigSig(n, b)) :
                p \in BigPlaces(w), b \in BigMagnitudes(w),
                n \in BOOLEAN } : w \in BigWidths }

ToDoubleInit ==
    /\ acc \in BigOperands
    /\ ValidType(acc.width, acc.place)
    /\ acc.significand.neg => acc.significand.bits /= {}
    /\ op = "none"
    /\ in1 = NoOperand
    /\ in2 = NoOperand
    /\ arg = 0
    /\ dbl = NoDouble
    /\ rnd = "FE_TONEAREST"
    /\ rel = FALSE
    /\ acc_t = NoAccumulator
    /\ accumulator = 0
    /\ thrown = FALSE
    /\ terms = NoTerms
    /\ cx = NoComplex
    /\ cy = NoComplex
    /\ cz = NoComplex

\* double d = a;
OperatorDouble ==
    /\ Idle
    /\ op' = "operator_double"
    /\ dbl' = operator_double(acc)
    /\ UNCHANGED <<acc, in1, in2, arg, rnd, rel, adder_vars, complex_vars>>

ToDoubleNext == OperatorDouble

SpecToDouble == ToDoubleInit /\ [][ToDoubleNext]_vars

\* C24: for every accepted WIDTH every legal significand has magnitude at
\* most 2^53 - 1 (no 1 bit at place 53 or above), and the double returned by
\* operator double() is significand * 2^PLACE exactly: finite, with the
\* significand's sign and the significand's bits, each moved by PLACE.
C24_ExactDouble ==
    op = "operator_double" =>
        /\ \A k \in acc.significand.bits : k < 53
        /\ dbl = [cls |-> "fin",
                  neg |-> acc.significand.neg,
                  bits |-> {k + acc.place : k \in acc.significand.bits}]

\* -(2^53 - 1) of the widest type, at the lowest place, converted
C24_Witness ==
    /\ op = "operator_double"
    /\ acc.width = 54
    /\ acc.place = -1022
    /\ acc.significand = [neg |-> TRUE, bits |-> 0 .. 52]
    /\ dbl.bits = (-1022) .. (-970)

----------------------------------------------------------------------------
\* the true sum of the accumulator and the increment, in two 16-bit limbs
\* as wide() gives them
TrueSumLimbs ==
    LET lo == (arg % 65536) + (in2.significand % 65536)
        hi == (arg \div 65536) + (in2.significand \div 65536)
                 + (lo \div 65536)
    IN  [hi |-> hi, lo |-> lo % 65536]

\* C26: in exact_adder<WIDTH1> and clamp_adder<WIDTH1>, for a legal
\* accumulator and a legal increment no wider, WIDTH1 = 32 included, the
\* local variable result holds the true sum of the two when the overflow
\* test or the clamp is applied to it.
C26_ResultIsTrueSum ==
    (/\ op \in {"exact_adder", "clamp_adder"}
     /\ LegalRange(acc_t.width, arg)
     /\ Legal(in2)) =>
        terms[1] = TrueSumLimbs

----------------------------------------------------------------------------
\* ------------------------- std::accumulate with an adder, and the sum kept
\* tmp = std::accumulate(a.begin(), a.end(), significand_t<WIDTH1>(init),
\*                       adder<WIDTH1, WIDTH2, PLACE>);
\* FixedPoint<WIDTH1, PLACE> sum;  sum.set_significand(tmp);
\* terms is init followed by the significands of the elements folded so
\* far, arg the accumulator handed to the last call, in2 its increment.
FoldTypes == {SignificandT(MaxFoldWidth), SignificandT(INT_FAST32_DIGITS)}

\* init: zero, the ends of the legal range, the values next to zero, and
\* the lowest value of WIDTH1 bits
FoldInputs(T) ==
    {-MAX_SIGNIFICAND_VALUE(T.width) - 1, -MAX_SIGNIFICAND_VALUE(T.width),
     -1, 0, 1, MAX_SIGNIFICAND_VALUE(T.width)}

\* the elements: FixedPoint<MaxFoldWidth, 0>, every legal significand
FoldIncrements ==
    { set_significand(FP(MaxFoldWidth, 0, 0), v) :
        v \in -MAX_SIGNIFICAND_VALUE(MaxFoldWidth)
                 .. MAX_SIGNIFICAND_VALUE(MaxFoldWidth) }

FoldInit ==
    /\ acc = NoOperand
    /\ op = "none"
    /\ in1 = NoOperand
    /\ in2 = NoOperand
    /\ dbl = NoDouble
    /\ rnd = "FE_TONEAREST"
    /\ rel = FALSE
    /\ acc_t \in FoldTypes
    /\ accumulator \in FoldInputs(acc_t)
    /\ arg = accumulator
    /\ thrown = FALSE
    /\ terms = <<accumulator>>
    /\ cx = NoComplex
    /\ cy = NoComplex
    /\ cz = NoComplex

\* one turn of std::accumulate: accumulator = adder(accumulator, b), which
\* returned r or threw
FoldCall(o, b, r, t) ==
    /\ op' = o
    /\ arg' = accumulator
    /\ in2' = b
    /\ accumulator' = (IF t THEN accumulator ELSE r)
    /\ thrown' = t
    /\ terms' = Append(terms, b.significand)
    /\ UNCHANGED <<acc, in1, dbl, rnd, rel, acc_t, complex_vars>>

FoldIntAdder ==
    /\ op \in {"none", "int_adder"}
    /\ Len(terms) <= MaxFoldLen
    /\ \E b \in FoldIncrements :
        FoldCall("int_adder", b, int_adder(acc_t.width, accumulator, b), FALSE)

\* a throw ends std::accumulate
FoldExactAdder ==
    /\ op \in {"none", "exact_adder"}
    /\ ~thrown
    /\ Len(terms) <= MaxFoldLen
    /\ \E b \in FoldIncrements :
      \E r \in exact_adder(acc_t.width, accumulator, b) :
        FoldCall("exact_adder", b, r.value, r.thrown)

FoldClampAdder ==
    /\ op \in {"none", "clamp_adder"}
    /\ Len(terms) <= MaxFoldLen
    /\ \E b \in FoldIncrements :
      \E r \in clamp_adder(acc_t.width, accumulator, b) :
        FoldCall("clamp_adder", b, r.value, FALSE)

\* FixedPoint<WIDTH1, PLACE> sum; sum.set_significand(tmp);
FoldStoreSum ==
    /\ op \in {"int_adder", "exact_adder", "clamp_adder"}
    /\ ~thrown
    /\ acc' = set_significand(FP(acc_t.width, in2.place, 0), accumulator)
    /\ op' = (CASE op = "int_adder" -> "int_adder, set_significand"
                [] op = "exact_adder" -> "exact_adder, set_significand"
                [] op = "clamp_adder" -> "clamp_adder, set_significand")
    /\ UNCHANGED <<in1, in2, arg, dbl, rnd, rel, adder_vars, complex_vars>>

FoldNext ==
    \/ FoldIntAdder
    \/ FoldExactAdder
    \/ FoldClampAdder
    \/ FoldStoreSum

SpecFold == FoldInit /\ [][FoldNext]_vars

\* the sum of the significands of the elements folded so far
RECURSIVE SumFrom(_, _)
SumFrom(seq, i) == IF i > Len(seq) THEN 0 ELSE seq[i] + SumFrom(seq, i + 1)
Increase == SumFrom(terms, 2)
SameSign ==
    \/ \A i \in 2 .. Len(terms) : terms[i] >= 0
    \/ \A i \in 2 .. Len(terms) : terms[i] <= 0

\* C25: when all increments have the same sign, the fold of clamp_adder
\* from a legal init yields clamp<WIDTH1>(init + the sum of the
\* increments): the true total where it is legal, and otherwise the bound
\* on its side, at whichever step the clamping began.
C25_ClampFold ==
    (/\ op = "clamp_adder"
     /\ LegalRange(acc_t.width, terms[1])
     /\ SameSign) =>
        LET M == MaxMagnitude(acc_t.width)
        IN  accumulator =
                IF Increase >= 0
                THEN (IF terms[1] > M - Increase THEN M
                      ELSE terms[1] + Increase)
                ELSE (IF terms[1] < -M - Increase THEN -M
                      ELSE terms[1] + Increase)

\* C28: when exact_adder<WIDTH1> returns, without throwing, for a legal
\* accumulator and a legal increment, the value returned is a legal
\* significand of width WIDTH1, and set_significand stores it unchanged.
C28_ExactAdderReturnsLegal ==
    (/\ op = "exact_adder, set_significand"
     /\ LegalRange(acc_t.width, arg)
     /\ Legal(in2)) =>
        /\ LegalRange(acc_t.width, accumulator)
        /\ acc.significand = accumulator

\* C29: the fold of int_adder<WIDTH1> from any init over any sequence of
\* increments yields the WIDTH1-bit two's complement wrap of init + the sum
\* of the increments -- the value of [-2^(WIDTH1-1), 2^(WIDTH1-1) - 1]
\* congruent to it modulo 2^WIDTH1 -- whatever the order of the increments
\* and however often an intermediate sum wrapped.
C29_IntAdderFold ==
    op = "int_adder" =>
        /\ ~thrown
        /\ FitsInBits(acc_t.width, accumulator)
        /\ Congruent(accumulator, terms[1], Increase, acc_t.width)

\* positive increments from a positive init: the sum had wrapped before the
\* last call, and the result is the total less 2^WIDTH1
C29_Witness ==
    /\ op = "int_adder"
    /\ acc_t.width < 32
    /\ terms[1] > 0
    /\ \A i \in 2 .. Len(terms) : terms[i] > 0
    /\ arg < 0
    /\ accumulator > 0
    /\ accumulator = terms[1] + Increase - 2^acc_t.width

----------------------------------------------------------------------------
\* the last call rounded in1 at LSB_PLACE = arg above in1's place, through
\* the lambda of a rounding function
Biased == op \in RoundingOps /\ arg > in1.place

\* the bias: what the lambda added to the significand, in two 16-bit limbs
\* as wide() gives them
BiasLimbs ==
    LET lo == terms[1].lo - in1.significand
    IN  [hi |-> terms[1].hi + (lo \div 65536), lo |-> lo % 65536]

\* C27: for every rounding function instantiated with LSB_PLACE > PLACE and
\* every legal significand, the bias constants and their addition do not
\* overflow: the value handed to the right shift is the significand plus a
\* bias of at least 0 and less than 2^(LSB_PLACE - PLACE), none at all in
\* floor, and it lies within the 64 bits of round_sig_t.
C27_BiasedIntermediateFits ==
    (Biased /\ Legal(in1)) =>
        LET gap == arg - in1.place
        IN  /\ BiasLimbs.hi >= 0
            /\ op = "floor" => BiasLimbs = [hi |-> 0, lo |-> 0]
            /\ (op /= "floor" /\ gap < 16) =>
                   BiasLimbs.hi = 0 /\ BiasLimbs.lo < 2^gap
            /\ (op /= "floor" /\ gap >= 16) => BiasLimbs.hi < 2^(gap - 16)
            /\ -(2^30) <= terms[1].hi /\ terms[1].hi < 2^30

----------------------------------------------------------------------------
\* --------------------------------- a rounding of -x beside one of x
\* y = (-x).f<LSB_PLACE>();  z = -(x.g<LSB_PLACE>());
\* acc is y, in2 is z, in1 is x and arg is LSB_PLACE.
NegationInit ==
    /\ acc \in Operands
    /\ op = "none"
    /\ in1 = NoOperand
    /\ in2 = NoOperand
    /\ arg = 0
    /\ dbl = NoDouble
    /\ rnd = "FE_TONEAREST"
    /\ rel = FALSE
    /\ acc_t = NoAccumulator
    /\ accumulator = 0
    /\ thrown = FALSE
    /\ terms = NoTerms
    /\ cx = NoComplex
    /\ cy = NoComplex
    /\ cz = NoComplex

RoundedBoth(o, lsb, y, z) ==
    /\ ValidType(y.width, y.place)
    /\ ValidType(z.width, z.place)
    /\ acc' = y
    /\ in2' = operator_neg(z)
    /\ in1' = acc
    /\ arg' = lsb
    /\ op' = o
    /\ UNCHANGED <<dbl, rnd, rel, adder_vars, complex_vars>>

CeilOfNegated ==
    /\ Idle
    /\ \E lsb \in LsbPlaces :
        /\ acc.place >= lsb \/ mask_is_constant(1 + lsb - acc.place)
        /\ \E y \in ceil(operator_neg(acc), lsb), z \in floor(acc, lsb) :
            RoundedBoth("ceil, floor", lsb, y, z)

RoundHalfUpOfNegated ==
    /\ Idle
    /\ \E lsb \in LsbPlaces :
        /\ acc.place >= lsb \/ half_is_constant(acc.width, acc.place, lsb)
        /\ acc.place >= lsb \/ mask_is_constant(lsb - acc.place)
        /\ \E y \in round_half_up(operator_neg(acc), lsb),
              z \in round_half_down(acc, lsb) :
            RoundedBoth("round_half_up, round_half_down", lsb, y, z)

TruncOfNegated ==
    /\ Idle
    /\ \E lsb \in LsbPlaces :
        /\ acc.place >= lsb \/ mask_is_constant(1 + lsb - acc.place)
        /\ \E y \in trunc(operator_neg(acc), lsb), z \in trunc(acc, lsb) :
            RoundedBoth("trunc", lsb, y, z)

RoundHalfToEvenOfNegated ==
    /\ Idle
    /\ \E lsb \in LsbPlaces :
        /\ acc.place >= lsb \/ mask_is_constant(lsb - acc.place)
        /\ \E y \in round_half_to_even(operator_neg(acc), lsb),
              z \in round_half_to_even(acc, lsb) :
            RoundedBoth("round_half_to_even", lsb, y, z)

RoundHalfAwayFromZeroOfNegated ==
    /\ Idle
    /\ \E lsb \in LsbPlaces :
        /\ acc.place >= lsb \/ half_is_constant(acc.width, acc.place, lsb)
        /\ \E y \in round_half_away_from_zero(operator_neg(acc), lsb),
              z \in round_half_away_from_zero(acc, lsb) :
            RoundedBoth("round_half_away_from_zero", lsb, y, z)

RoundHalfTowardZeroOfNegated ==
    /\ Idle
    /\ \E lsb \in LsbPlaces :
        /\ acc.place >= lsb \/ half_is_constant(acc.width, acc.place, lsb)
        /\ \E y \in round_half_toward_zero(operator_neg(acc), lsb),
              z \in round_half_toward_zero(acc, lsb) :
            RoundedBoth("round_half_toward_zero", lsb, y, z)

NegationNext ==
    \/ CeilOfNegated
    \/ RoundHalfUpOfNegated
    \/ TruncOfNegated
    \/ RoundHalfToEvenOfNegated
    \/ RoundHalfAwayFromZeroOfNegated
    \/ RoundHalfTowardZeroOfNegated

SpecNegation == NegationInit /\ [][NegationNext]_vars

\* C30: for every legal x and every LSB_PLACE, ceil(-x) = -floor(x),
\* round_half_up(-x) = -round_half_down(x), and trunc, round_half_to_even,
\* round_half_away_from_zero and round_half_toward_zero give f(-x) = -f(x):
\* the two sides have the same type and the same significand.
C30_RoundingUnderNegation ==
    (op /= "none" /\ Legal(in1)) => acc = in2

====
